---- MODULE Spec2Model ----
(***************************************************************************)
(* A model of the label-assignment and training-target logic of the        *)
(* detection framework:                                                    *)
(*   - ATSSAssigner.assign       (mmdet/core/bbox/assigners/atss_assigner) *)
(*   - CascadeRoIHead.forward_train (mmdet/models/roi_heads/cascade_roi_   *)
(*     head)                                                               *)
(*   - YOLOXModeSwitchHook.before_train_epoch (exercised by tests/         *)
(*     test_core/test_hook/test_yolox_mode_switch_hook)                    *)
(*   - SemiMixUpDetector (mmdet/models/detectors/semi_mixup)               *)
(*   - Translate (mmdet/datasets/pipelines/auto_augment)                   *)
(*   - TestAugModelWrapper.merge_aug_bboxes (mmdet/models/test_time_augs/  *)
(*     model_wrapper)                                                      *)
(*   - SingleStageInstanceSegmentor.forward_train (mmdet/models/detectors/ *)
(*     single_stage_instance_seg)                                          *)
(*                                                                         *)
(* Conventions.                                                            *)
(*   Boxes are <<x1, y1, x2, y2>>.  Coordinates are integers counting      *)
(*   hundredths of a pixel, so the 0.01 of the center-in-gt test is 1.     *)
(*   Tensor index i of the code is index i+1 here (TLA+ sequences start    *)
(*   at 1); assigned_gt_inds keeps the code's values (0 = background,      *)
(*   g = 1-based gt index).                                                *)
(*   Real numbers are kept exact: an IoU is a pair <<num, den>>, and the   *)
(*   comparison with mean + std is done on integers scaled by a common     *)
(*   denominator.  Floating-point rounding is not modelled.                *)
(*   None is <<"None">>, a tensor t is <<"Tensor", t>>.                    *)
(***************************************************************************)
EXTENDS Integers, Sequences, FiniteSets, TLC

VARIABLES
    \* ---- ATSSAssigner.assign: arguments, configuration, locals, result
    topk,               \* self.topk
    bboxes,             \* argument bboxes (n boxes)
    num_level_bboxes,   \* argument num_level_bboxes
    gt_bboxes,          \* argument gt_bboxes (k boxes)
    gt_bboxes_ignore,   \* argument gt_bboxes_ignore
    gt_labels,          \* argument gt_labels
    atss_pc,            \* "idle" | "call" | "returned" | "ValueError" | "RuntimeError"
    candidate_idxs,     \* local candidate_idxs, one column (a sequence) per gt
    assigned_gt_inds,   \* AssignResult.gt_inds
    max_overlaps,       \* AssignResult.max_overlaps
    assigned_labels,    \* AssignResult.labels
    atss_prev,          \* None, or gt_bboxes_ignore and the AssignResult of
                        \* an earlier call with the same other arguments
    \* ---- CascadeRoIHead: configuration (self.*)
    num_stages,           \* self.num_stages
    stage_loss_weights,   \* self.stage_loss_weights
    with_mask,            \* self.with_mask (a mask head was given)
    share_roi_extractor,  \* self.share_roi_extractor
    \* ---- CascadeRoIHead.forward_train: arguments
    img_meta,             \* one entry per image
    ft_gt_bboxes,         \* gt_bboxes, per image
    ft_proposals,         \* proposal_list as the caller passed it
    \* ---- CascadeRoIHead.forward_train: locals and position
    ft_pc,                \* position in forward_train
    current_stage,        \* self.current_stage, the loop variable i
    img_j,                \* the loop variable j
    proposal_list,        \* the local proposal_list
    assign_result,        \* the last assign_result
    sampling_results,     \* sampling_results of the stage
    rois,                 \* rois of the stage
    bbox_feats,           \* bbox_feats of the stage
    pos_inds,             \* pos_inds of the stage (shared extractor)
    mask_feats,           \* mask_feats of the stage
    pos_labels,           \* pos_labels of the stage
    losses,               \* the dict losses
    \* ---- CascadeRoIHead.forward_train: history of the call
    ft_log,               \* the calls made so far, <<step, stage, image>>
    stage_inputs,         \* per stage, per image: what assign and sample got
    refine_ret,           \* per stage: what refine_bboxes returned, or None
    num_rois,             \* per stage: len(rois)
    loss_writes,          \* every assignment losses[key] = value made
    \* ---- YOLOXModeSwitchHook and the runner its test hands to it
    num_last_epochs,          \* hook.num_last_epochs
    restart_dataloader,       \* hook._restart_dataloader
    runner_epoch,             \* runner.epoch
    max_epochs,               \* runner.max_epochs
    is_model_wrapper,         \* is_model_wrapper(runner.model)
    use_l1,                   \* bbox_head.use_l1 of runner.model and of
                              \* runner.model.module
    persistent_workers,       \* runner.train_dataloader.persistent_workers
    DataLoader__initialized,  \* runner.train_dataloader._DataLoader__initialized
    hook_pc,                  \* what the runner does next
    hook_calls,               \* the epochs before_train_epoch was called at
    \* ---- SemiMixUpDetector
    detector,                 \* the config detector given to __init__
    semi_train_cfg,           \* self.semi_train_cfg
    semi_test_cfg,            \* self.semi_test_cfg
    modules,                  \* the modules built so far, by identity
    teacher,                  \* self.teacher, an identity (0: not set)
    student,                  \* self.student, an identity (0: not set)
    batch_size,               \* the number of samples of an unlabeled batch
    pseudo_before,            \* gt_instances of the unsup_teacher samples, as
                              \* the call at hand got them
    results_list,             \* what teacher.predict returned in the call
    unsup_teacher_instances,  \* gt_instances of the unsup_teacher samples
    unsup_student_instances,  \* gt_instances of the unsup_student samples
    semi_pc,                  \* "idle" | "init" | "built"
    semi_log,                 \* the methods called so far and the models they ran
    \* ---- Translate (auto_augment.py)
    level,                    \* argument level / self.level
    prob,                     \* argument prob / self.prob, in tenths
    axis,                     \* argument axis / self.axis
    max_translate_offset,     \* argument max_translate_offset
    offset,                   \* self.offset
    min_size,                 \* argument min_size of __call__
    tr_results_in,            \* results as __call__ got it
    tr_results,               \* results, a dict (a function of its keys)
    tr_offset,                \* the local offset of __call__
    tr_pc,                    \* "idle" | "new" | "built" | "AssertionError" |
                              \* "skipped" | "returned" | "NotImplementedError"
    \* ---- TestAugModelWrapper.merge_aug_bboxes ----
    aug_bboxes,               \* argument aug_bboxes, one list of boxes per
                              \* augmentation
    aug_scores,               \* argument aug_scores: None or Tensor(one list
                              \* of scores per augmentation)
    img_metas,                \* argument img_metas: per augmentation a list
                              \* holding one dict
    merged,                   \* what the call returned
    merge_pc,                 \* "idle" | "called" | "returned" | "RuntimeError"
    \* ---- SingleStageInstanceSegmentor.forward_train ----
    seg_bbox_head,            \* self.bbox_head: None or Tensor(the losses and
                              \* positive_infos its loss() gives)
    seg_mask_loss,            \* what self.mask_head.forward_train gives
    positive_infos,           \* local positive_infos
    seg_losses,               \* local losses, a dict
    mask_head_calls,          \* the positive_infos of every call of
                              \* mask_head.forward_train
    seg_ret,                  \* the returned dict
    seg_pc,                   \* "idle" | "called" | "det" | "mask" |
                              \* "returned" | "AssertionError"
    \* ---- SemiMixUpDetector.project_pseudo_instances / filter_pseudo_instances
    min_pseudo_bbox_wh,       \* self.semi_train_cfg.min_pseudo_bbox_wh
    batch_pseudo_instances,   \* argument: per sample the teacher's gt_instances
    pj_data_samples,          \* argument batch_data_samples: per sample its
                              \* homography_matrix and img_shape
    pj_projected,             \* the gt_instances filter_pseudo_instances gets
    pj_ret,                   \* the gt_instances of the returned samples
    pj_pc,                    \* "idle" | "called" | "returned"
    \* ---- SemiMixUpDetector.loss: the loss dictionary
    sup_weight,               \* semi_train_cfg['sup_weight'], None if not set
    unsup_weight,             \* semi_train_cfg['unsup_weight'], None if not set
    sup_student_loss,         \* what student.loss gives on the sup batch
    unsup_student_loss,       \* what student.loss gives on the mixed batch
    pseudo_instances_len,     \* len(gt_instances) of each mixed sample
    ls_losses,                \* local losses, a dict (a function of its keys)
    ls_calls,                 \* the modules whose loss() was called
    ls_pc                     \* "idle" | "called" | "sup" | "unsup" | "returned"

atssVars == <<topk, bboxes, num_level_bboxes, gt_bboxes, gt_bboxes_ignore,
              gt_labels, atss_pc, candidate_idxs, assigned_gt_inds,
              max_overlaps, assigned_labels, atss_prev>>

cascadeVars == <<num_stages, stage_loss_weights, with_mask, share_roi_extractor,
                 img_meta, ft_gt_bboxes, ft_proposals, ft_pc, current_stage,
                 img_j, proposal_list, assign_result, sampling_results, rois,
                 bbox_feats, pos_inds, mask_feats, pos_labels, losses, ft_log,
                 stage_inputs, refine_ret, num_rois, loss_writes>>

hookVars == <<num_last_epochs, restart_dataloader, runner_epoch, max_epochs,
              is_model_wrapper, use_l1, persistent_workers,
              DataLoader__initialized, hook_pc, hook_calls>>

semiVars == <<detector, semi_train_cfg, semi_test_cfg, modules, teacher,
              student, batch_size, pseudo_before, results_list,
              unsup_teacher_instances, unsup_student_instances, semi_pc,
              semi_log>>

translateVars == <<level, prob, axis, max_translate_offset, offset, min_size,
                   tr_results_in, tr_results, tr_offset, tr_pc>>

mergeVars == <<aug_bboxes, aug_scores, img_metas, merged, merge_pc>>

segVars == <<seg_bbox_head, seg_mask_loss, positive_infos, seg_losses,
             mask_head_calls, seg_ret, seg_pc>>

projectVars == <<min_pseudo_bbox_wh, batch_pseudo_instances, pj_data_samples,
                 pj_projected, pj_ret, pj_pc>>

lossVars == <<sup_weight, unsup_weight, sup_student_loss, unsup_student_loss,
              pseudo_instances_len, ls_losses, ls_calls, ls_pc>>

vars == <<atssVars, cascadeVars, hookVars, semiVars, translateVars, mergeVars,
          segVars, projectVars, lossVars>>

\* what the steps of one component leave alone
notAtss == <<cascadeVars, hookVars, semiVars, translateVars, mergeVars, segVars,
    projectVars, lossVars>>
notCascade == <<atssVars, hookVars, semiVars, translateVars, mergeVars, segVars,
    projectVars, lossVars>>
notHook == <<atssVars, cascadeVars, semiVars, translateVars, mergeVars, segVars,
    projectVars, lossVars>>
notSemi == <<atssVars, cascadeVars, hookVars, translateVars, mergeVars, segVars,
    projectVars, lossVars>>
notTranslate == <<atssVars, cascadeVars, hookVars, semiVars, mergeVars, segVars,
    projectVars, lossVars>>
notMerge == <<atssVars, cascadeVars, hookVars, semiVars, translateVars, segVars,
    projectVars, lossVars>>
notSeg == <<atssVars, cascadeVars, hookVars, semiVars, translateVars, mergeVars,
    projectVars, lossVars>>
notProject == <<atssVars, cascadeVars, hookVars, semiVars, translateVars,
    mergeVars, segVars, lossVars>>
notLoss == <<atssVars, cascadeVars, hookVars, semiVars, translateVars,
    mergeVars, segVars, projectVars>>

(***************************************************************************)
(* Bounds of the model.                                                    *)
(***************************************************************************)
MaxBoxes == 3
MaxGt == 2
MaxLevels == 2
MaxStages == 2
MaxImgs == 2
MaxProposals == 1
MaxEpochs == 4
MaxCalls == 3
MaxPreds == 2
MaxTrBoxes == 2
MaxAugs == 2
MaxAugBoxes == 2

(***************************************************************************)
(* Generic helpers.                                                        *)
(***************************************************************************)
None == <<"None">>
Tensor(t) == <<"Tensor", t>>
IsNone(x) == x[1] = "None"
Data(x) == x[2]

Min2(a, b) == IF a <= b THEN a ELSE b
Max2(a, b) == IF a >= b THEN a ELSE b

RECURSIVE GCD(_, _)
GCD(a, b) == IF b = 0 THEN a ELSE GCD(b, a % b)

LCM(a, b) == (a \div GCD(a, b)) * b

RECURSIVE SeqSum(_)
SeqSum(s) == IF s = <<>> THEN 0 ELSE Head(s) + SeqSum(Tail(s))

RECURSIVE SeqLCM(_)
SeqLCM(s) == IF s = <<>> THEN 1 ELSE LCM(Head(s), SeqLCM(Tail(s)))

SeqRange(s) == {s[i] : i \in DOMAIN s}

\* non-decreasing sequences of length n over 1..m
NonDecreasing(m, n) ==
    {s \in [1..n -> 1..m] : \A i \in 1..(n - 1) : s[i] <= s[i + 1]}

\* rationals <<num, den>> with den > 0
RatLe(a, b) == a[1] * b[2] <= b[1] * a[2]
Reduce(a) == LET d == GCD(IF a[1] < 0 THEN -a[1] ELSE a[1], a[2])
             IN  <<a[1] \div d, a[2] \div d>>

(***************************************************************************)
(* Inputs of ATSSAssigner.assign.                                          *)
(***************************************************************************)
\* anchors / predicted boxes the inputs are drawn from; against the two gts
\* their IoUs are 1/2, 1/4, 0, 1, 0 and 1/5, 0, 0, 3/5, 0
BoxPool == << <<4, 0, 8, 4>>,      \* inside both gts
              <<0, 0, 2, 4>>,      \* center 0.01 right of the first gt's left side
              <<0, 4, 2, 8>>,      \* below the gts
              <<0, 0, 8, 4>>,      \* equal to the first gt
              <<0, 4, 8, 8>> >>    \* below the gts

\* ground-truth boxes with their class labels
GtPool == << [box |-> <<0, 0, 8, 4>>,  label |-> 1],
             [box |-> <<2, 0, 10, 4>>, label |-> 2] >>

IgnoreChoices == {None, Tensor(<< <<0, 0, 8, 4>> >>)}

\* compositions of n into l parts >= 1
Compositions(n, l) == {s \in [1..l -> 1..n] : SeqSum(s) = n}

\* num_level_bboxes: 1..MaxLevels non-empty levels holding n boxes in all
LevelSplits(n) ==
    IF n = 0 THEN {<<0>>}
    ELSE UNION {Compositions(n, l) : l \in 1..MaxLevels}

\* start_idx of level l (atss_assigner.py:71,77)
StartIdx(nlb, l) == SeqSum(SubSeq(nlb, 1, l - 1))

\* the level holding box index i
LevelOf(nlb, i) ==
    CHOOSE l \in 1..Len(nlb) : StartIdx(nlb, l) < i /\ i <= StartIdx(nlb, l) + nlb[l]

\* the anchors of a level are distinct and listed in a fixed (grid) order
BoxLists(nlb) ==
    LET n == SeqSum(nlb)
    IN  {[i \in 1..n |-> BoxPool[s[i]]] :
            s \in {t \in [1..n -> 1..Len(BoxPool)] :
                     \A i \in 1..(n - 1) :
                        LevelOf(nlb, i) = LevelOf(nlb, i + 1) => t[i] < t[i + 1]}}

GtLists == UNION {NonDecreasing(Len(GtPool), k) : k \in 0..MaxGt}

(***************************************************************************)
(* Geometric primitives.                                                   *)
(***************************************************************************)
Area(b) == (b[3] - b[1]) * (b[4] - b[2])

Intersection(a, b) ==
    Max2(0, Min2(a[3], b[3]) - Max2(a[1], b[1]))
        * Max2(0, Min2(a[4], b[4]) - Max2(a[2], b[2]))

\* IoU of two boxes, an exact fraction in lowest terms
bbox_overlaps(a, b) ==
    Reduce(<<Intersection(a, b), Area(a) + Area(b) - Intersection(a, b)>>)

\* twice the center coordinates: (x1 + x2) / 2.0 and (y1 + y2) / 2.0
Cx2(b) == b[1] + b[3]
Cy2(b) == b[2] + b[4]

(***************************************************************************)
(* ATSSAssigner.assign, step by step (atss_assigner.py:52-118).            *)
(***************************************************************************)
INF == 100000000
NegInf == <<-INF, 1>>
\* the 0.01 of "min(l, t, r, b) > 0.01", in hundredths of a pixel
CenterEps == 1

num_bboxes == Len(bboxes)
num_gt == Len(gt_bboxes)

\* an IoU that is 0 for a bbox touching an ignored region
Overlaps_IgnoreAware(i, g) ==
    IF /\ ~IsNone(gt_bboxes_ignore)
       /\ \E k \in 1..Len(Data(gt_bboxes_ignore)) :
             Intersection(bboxes[i], Data(gt_bboxes_ignore)[k]) > 0
    THEN <<0, 1>>
    ELSE bbox_overlaps(bboxes[i], gt_bboxes[g])

\* overlaps[i, g]
Overlaps(i, g) == bbox_overlaps(bboxes[i], gt_bboxes[g])

\* distances[i, g]: 4 * distance^2; sqrt is monotone, so topk orders alike
Distances(i, g) ==
    (Cx2(bboxes[i]) - Cx2(gt_bboxes[g])) * (Cx2(bboxes[i]) - Cx2(gt_bboxes[g]))
  + (Cy2(bboxes[i]) - Cy2(gt_bboxes[g])) * (Cy2(bboxes[i]) - Cy2(gt_bboxes[g]))

\* distances_per_level[r, g], r relative to the level's start
DistancesPerLevel(l, r, g) == Distances(StartIdx(num_level_bboxes, l) + r, g)

\* distances_per_level.topk(self.topk, dim=0, largest=False) for gt g: the
\* k relative indices of smallest distance; which of several equally distant
\* boxes is taken is not specified.  The k indices are kept in index order
\* (the code lists them by distance; nothing later depends on that order).
TopkIdxsPerLevel(l, g) ==
    LET m == num_level_bboxes[l]
    IN  {s \in [1..topk -> 1..m] :
           /\ \A p \in 1..(topk - 1) : s[p] < s[p + 1]
           /\ \A r \in (1..m) \ SeqRange(s) :
                \A p \in 1..topk :
                    DistancesPerLevel(l, s[p], g) <= DistancesPerLevel(l, r, g)}

\* the level's indices left relative to the level (start_idx not added back)
AddStartIdx_Dropped(s, l) == s

\* topk_idxs_per_level + start_idx
AddStartIdx(s, l) == [p \in 1..Len(s) |-> s[p] + StartIdx(num_level_bboxes, l)]

\* torch.cat(candidate_idxs, dim=0)[:, g] over the levels 1..l
RECURSIVE CandidateColumns(_, _)
CandidateColumns(g, l) ==
    IF l = 0 THEN {<<>>}
    ELSE {c \o AddStartIdx(s, l) :
            c \in CandidateColumns(g, l - 1), s \in TopkIdxsPerLevel(l, g)}

\* every value candidate_idxs can take, for the gts 1..g
RECURSIVE CandidateIdxs(_)
CandidateIdxs(g) ==
    IF g = 0 THEN {<<>>}
    ELSE {Append(c, col) :
            c \in CandidateIdxs(g - 1),
            col \in CandidateColumns(g, Len(num_level_bboxes))}

\* a sequence given as a function, evaluated once and kept as a tuple
Tuple(f) == SubSeq(f, 1, Len(f))

\* candidate_overlaps[:, g]
CandidateOverlaps(cand, g) ==
    Tuple([p \in 1..Len(cand[g]) |-> Overlaps(cand[g][p], g)])

\* candidate_overlaps[:, g] * D, D the common denominator of the column
ScaledOverlaps(cand, g) ==
    LET co == CandidateOverlaps(cand, g)
        D  == SeqLCM([p \in 1..Len(co) |-> co[p][2]])
    IN  Tuple([p \in 1..Len(co) |-> co[p][1] * (D \div co[p][2])])

\* (candidate_overlaps[:, g] - overlaps_mean_per_gt[g]) * N * D
OverlapsDeviation(cand, g) ==
    LET X == ScaledOverlaps(cand, g)
        N == Len(X)
        S == SeqSum(X)
    IN  Tuple([p \in 1..N |-> N * X[p] - S])

\* the threshold taken as the mean alone
GeOverlapsThr_MeanOnly(cand, g) ==
    LET dev == OverlapsDeviation(cand, g)
    IN  Tuple([p \in 1..Len(dev) |-> dev[p] >= 0])

\* candidate_overlaps[:, g] >= overlaps_thr_per_gt[g], where
\* overlaps_thr_per_gt = overlaps_mean_per_gt + overlaps_std_per_gt and std is
\* the unbiased estimator (divisor N - 1); with N = 1 the std is NaN and the
\* comparison is False
GeOverlapsThr(cand, g) ==
    LET dev   == OverlapsDeviation(cand, g)
        N     == Len(dev)
        sumsq == SeqSum([q \in 1..N |-> dev[q] * dev[q]])
    IN  Tuple([p \in 1..N |->
                 /\ N > 1
                 /\ dev[p] >= 0
                 /\ (N - 1) * dev[p] * dev[p] >= sumsq])

\* is_in_gts[p, g]: min(l, t, r, b) > 0.01, on doubled lengths
IsInGts(cand, g, p) ==
    LET bb == bboxes[cand[g][p]]
        gt == gt_bboxes[g]
        l2 == Cx2(bb) - 2 * gt[1]
        t2 == Cy2(bb) - 2 * gt[2]
        r2 == 2 * gt[3] - Cx2(bb)
        b2 == 2 * gt[4] - Cy2(bb)
    IN  Min2(Min2(l2, t2), Min2(r2, b2)) > 2 * CenterEps

\* is_pos without the center-in-gt gate
IsPosColumn_NoCenterGate(cand, g) == GeOverlapsThr(cand, g)

\* is_pos[:, g] after "is_pos = is_pos & is_in_gts"
IsPosColumn(cand, g) ==
    LET ge == GeOverlapsThr(cand, g)
    IN  Tuple([p \in 1..Len(cand[g]) |-> ge[p] /\ IsInGts(cand, g, p)])

\* is_pos, one column per gt
IsPos(cand) == Tuple([g \in 1..num_gt |-> IsPosColumn(cand, g)])

\* overlaps_inf[i, g]: the IoU where (i, g) is a positive candidate, else -INF
OverlapsInf(cand, is_pos) ==
    Tuple([i \in 1..num_bboxes |->
        Tuple([g \in 1..num_gt |->
            IF \E p \in 1..Len(cand[g]) : cand[g][p] = i /\ is_pos[g][p]
            THEN Overlaps(i, g) ELSE NegInf])])

\* max_overlaps[i] of overlaps_inf.max(dim=1)
MaxOverlaps(overlaps_inf, i) ==
    CHOOSE v \in SeqRange(overlaps_inf[i]) :
        \A g \in 1..num_gt : RatLe(overlaps_inf[i][g], v)

\* the index of any gt the bbox is a positive candidate of
ArgmaxOverlaps_AnyPositive(overlaps_inf, i) ==
    IF MaxOverlaps(overlaps_inf, i) = NegInf THEN {0}
    ELSE {g - 1 : g \in {h \in 1..num_gt : overlaps_inf[i][h] # NegInf}}

\* argmax_overlaps[i] (0-based as in the code); with equal maxima the index
\* returned is not specified.  It is only read where max_overlaps != -INF.
ArgmaxOverlaps(overlaps_inf, i) ==
    IF MaxOverlaps(overlaps_inf, i) = NegInf THEN {0}
    ELSE {g - 1 : g \in {h \in 1..num_gt :
                            overlaps_inf[i][h] = MaxOverlaps(overlaps_inf, i)}}

\* assigned_gt_inds filled with -1 instead of 0
AssignedGtInd_FillMinusOne(max_ov, am) == IF max_ov # NegInf THEN am + 1 ELSE -1

\* assigned_gt_inds[i] given argmax_overlaps[i] = am
AssignedGtInd(max_ov, am) == IF max_ov # NegInf THEN am + 1 ELSE 0

\* every value assigned_gt_inds[1..i] can take
RECURSIVE AssignedGtInds(_, _)
AssignedGtInds(overlaps_inf, i) ==
    IF i = 0 THEN {<<>>}
    ELSE {Append(a, AssignedGtInd(MaxOverlaps(overlaps_inf, i), am)) :
            a \in AssignedGtInds(overlaps_inf, i - 1),
            am \in ArgmaxOverlaps(overlaps_inf, i)}

\* every positive given the label of the first gt
AssignedLabels_FirstGt(inds) ==
    IF IsNone(gt_labels) THEN None
    ELSE Tensor([i \in 1..num_bboxes |->
                    IF inds[i] > 0 THEN Data(gt_labels)[1] ELSE 0])

\* assigned_labels (atss_assigner.py:111-117)
AssignedLabels(inds) ==
    IF IsNone(gt_labels) THEN None
    ELSE Tensor([i \in 1..num_bboxes |->
                    IF inds[i] > 0 THEN Data(gt_labels)[inds[i]] ELSE 0])

AtssInputs ==
    /\ topk \in 1..MaxBoxes
    /\ \E n \in 0..MaxBoxes :
         /\ num_level_bboxes \in LevelSplits(n)
         /\ bboxes \in BoxLists(num_level_bboxes)
    /\ \E gts \in GtLists :
         /\ gt_bboxes = [g \in 1..Len(gts) |-> GtPool[gts[g]].box]
         /\ gt_labels \in {None,
                           Tensor([g \in 1..Len(gts) |-> GtPool[gts[g]].label])}
    /\ gt_bboxes_ignore \in IgnoreChoices

\* assign has been called with the inputs
AtssCalled ==
    /\ AtssInputs
    /\ atss_pc = "call"
    /\ candidate_idxs = <<>>
    /\ assigned_gt_inds = <<>>
    /\ max_overlaps = <<>>
    /\ assigned_labels = None
    /\ atss_prev = None

\* no call of assign is under way
AtssIdle ==
    /\ topk = 1
    /\ bboxes = <<>>
    /\ num_level_bboxes = <<0>>
    /\ gt_bboxes = <<>>
    /\ gt_bboxes_ignore = None
    /\ gt_labels = None
    /\ atss_pc = "idle"
    /\ candidate_idxs = <<>>
    /\ assigned_gt_inds = <<>>
    /\ max_overlaps = <<>>
    /\ assigned_labels = None
    /\ atss_prev = None

\* the emptiness test looking at the gts alone
NoGtOrBboxes_GtOnly(nb, ng) == ng = 0

\* bboxes.shape[0] == 0 or gt_bboxes.shape[0] == 0
NoGtOrBboxes(nb, ng) == nb = 0 \/ ng = 0

\* atss_assigner.py:52-53
AssignRaiseValueError ==
    /\ atss_pc = "call"
    /\ NoGtOrBboxes(num_bboxes, num_gt)
    /\ atss_pc' = "ValueError"
    /\ UNCHANGED notAtss
    /\ UNCHANGED <<topk, bboxes, num_level_bboxes, gt_bboxes, gt_bboxes_ignore,
                   gt_labels, candidate_idxs, assigned_gt_inds, max_overlaps,
                   assigned_labels, atss_prev>>

\* atss_assigner.py:75: topk with k larger than the level raises
AssignRaiseTopk ==
    /\ atss_pc = "call"
    /\ ~NoGtOrBboxes(num_bboxes, num_gt)
    /\ \E l \in 1..Len(num_level_bboxes) : num_level_bboxes[l] < topk
    /\ atss_pc' = "RuntimeError"
    /\ UNCHANGED notAtss
    /\ UNCHANGED <<topk, bboxes, num_level_bboxes, gt_bboxes, gt_bboxes_ignore,
                   gt_labels, candidate_idxs, assigned_gt_inds, max_overlaps,
                   assigned_labels, atss_prev>>

\* atss_assigner.py:55-118
AssignReturn ==
    /\ atss_pc = "call"
    /\ ~NoGtOrBboxes(num_bboxes, num_gt)
    /\ \A l \in 1..Len(num_level_bboxes) : num_level_bboxes[l] >= topk
    /\ \E cand \in CandidateIdxs(num_gt) :
         LET overlaps_inf == OverlapsInf(cand, IsPos(cand))
         IN  \E inds \in AssignedGtInds(overlaps_inf, num_bboxes) :
                /\ candidate_idxs' = cand
                /\ assigned_gt_inds' = inds
                /\ max_overlaps' =
                      [i \in 1..num_bboxes |-> MaxOverlaps(overlaps_inf, i)]
                /\ assigned_labels' = AssignedLabels(inds)
    /\ atss_pc' = "returned"
    /\ UNCHANGED notAtss
    /\ UNCHANGED <<topk, bboxes, num_level_bboxes, gt_bboxes, gt_bboxes_ignore,
                   gt_labels, atss_prev>>

\* every AssignResult (gt_inds, max_overlaps, labels) a returning call can
\* give for the arguments at hand
AssignResults ==
    UNION {LET overlaps_inf == OverlapsInf(cand, IsPos(cand))
           IN  {[gt_inds |-> inds,
                 max_overlaps |->
                    Tuple([i \in 1..num_bboxes |-> MaxOverlaps(overlaps_inf, i)]),
                 labels |-> AssignedLabels(inds)] :
                   inds \in AssignedGtInds(overlaps_inf, num_bboxes)} :
             cand \in CandidateIdxs(num_gt)}

\* the caller keeps the AssignResult and calls assign once more, with
\* another gt_bboxes_ignore (atss_assigner.py:41, 45-46) and everything else
\* as before
AssignAgain ==
    /\ atss_pc = "returned"
    /\ IsNone(atss_prev)
    /\ atss_prev' = Tensor([gt_bboxes_ignore |-> gt_bboxes_ignore,
                            gt_inds |-> assigned_gt_inds,
                            max_overlaps |-> Tuple(max_overlaps),
                            labels |-> assigned_labels])
    /\ gt_bboxes_ignore' \in IgnoreChoices \ {gt_bboxes_ignore}
    /\ atss_pc' = "call"
    /\ candidate_idxs' = <<>>
    /\ assigned_gt_inds' = <<>>
    /\ max_overlaps' = <<>>
    /\ assigned_labels' = None
    /\ UNCHANGED notAtss
    /\ UNCHANGED <<topk, bboxes, num_level_bboxes, gt_bboxes, gt_labels>>


(***************************************************************************)
(* CascadeRoIHead.forward_train (cascade_roi_head.py:132-263).             *)
(*                                                                         *)
(* Boxes are opaque here, <<kind, stage, image, k>>: the k-th proposal the *)
(* caller gave for an image ("prop"), the k-th gt box of an image ("gt"),  *)
(* or the k-th box refine_bboxes of a stage returned for an image          *)
(* ("refined").  Images and the histories are indexed from 1; stage        *)
(* numbers in current_stage, ft_log and the loss keys are the code's       *)
(* (from 0).  Loss values are exact fractions <<num, den>>.                *)
(***************************************************************************)
Box(kind, stage, j, k) == <<kind, stage, j, k>>

num_imgs == Len(img_meta)

\* names of dict entries, as strings of characters
LossStr == <<"l", "o", "s", "s">>
LossCls == LossStr \o <<"_", "c", "l", "s">>
LossBbox == LossStr \o <<"_", "b", "b", "o", "x">>
LossMask == LossStr \o <<"_", "m", "a", "s", "k">>
Acc == <<"a", "c", "c">>

\* sub in str
Contains(sub, str) ==
    \E k \in 1..(Len(str) - Len(sub) + 1) :
        SubSeq(str, k, k + Len(sub) - 1) = sub

\* '{}'.format(n) for n >= 0
RECURSIVE Str(_)
Str(n) ==
    LET digit(d) == <<"0", "1", "2", "3", "4", "5", "6", "7", "8", "9">>[d + 1]
    IN  IF n < 10 THEN <<digit(n)>> ELSE Str(n \div 10) \o <<digit(n % 10)>>

\* 's{}.{}'.format(i, name)
FormatKey(i, name) == <<"s">> \o Str(i) \o <<".">> \o name

RatMul(a, b) == Reduce(<<a[1] * b[1], a[2] * b[2]>>)

\* value * lw if 'loss' in name else value, scaling every entry
StageLossValue_ScaleAll(name, value, lw) == RatMul(value, lw)

\* value * lw if 'loss' in name else value (cascade_roi_head.py:214-215)
StageLossValue(name, value, lw) ==
    IF Contains(LossStr, name) THEN RatMul(value, lw) ELSE value

\* what bbox_head.loss of stage i returns, in the dict's order
BboxHeadLoss(i) ==
    << <<LossCls, <<10 * i + 3, 1>> >>,
       <<Acc, <<10 * i + 5, 1>> >>,
       <<LossBbox, <<10 * i + 7, 1>> >> >>

\* what mask_head.loss of stage i returns
MaskHeadLoss(i) == << <<LossMask, <<10 * i + 9, 1>> >> >>

\* d[k] = v on a dict kept as a set of <<key, value>>
DictSet(d, k, v) == {e \in d : e[1] # k} \cup {<<k, v>>}

\* for name, value in items: losses[FormatKey(i, name)] = StageLossValue(...)
RECURSIVE UpdateLosses(_, _, _)
UpdateLosses(d, i, items) ==
    IF items = <<>> THEN d
    ELSE UpdateLosses(
            DictSet(d, FormatKey(i, Head(items)[1]),
                    StageLossValue(Head(items)[1], Head(items)[2],
                                   stage_loss_weights[i + 1])),
            i, Tail(items))

\* the assignments UpdateLosses makes, for the history
LossWrites(i, head, items) ==
    [k \in 1..Len(items) |->
        [stage |-> i, head |-> head, name |-> items[k][1],
         head_value |-> items[k][2],
         key |-> FormatKey(i, items[k][1]),
         value |-> StageLossValue(items[k][1], items[k][2],
                                  stage_loss_weights[i + 1])]]

\* stage_loss_weights for n stages: 1, 1/2, 1/4, ...
StageLossWeightChoices(n) ==
    LET RECURSIVE Pow2(_)
        Pow2(k) == IF k = 0 THEN 1 ELSE 2 * Pow2(k - 1)
    IN  {[i \in 1..n |-> <<1, Pow2(i - 1)>>]}

\* bbox2roi(bbox_list): the boxes of all images, each with its image index
RECURSIVE bbox2roi(_, _)
bbox2roi(bbox_list, j) ==
    IF j = 0 THEN <<>>
    ELSE bbox2roi(bbox_list, j - 1)
            \o [k \in 1..Len(bbox_list[j]) |-> <<j, bbox_list[j][k]>>]

\* bbox_head.refine_bboxes: per image, the rois regressed, those that are gt
\* boxes (pos_is_gt) dropped
RefineBboxes(i, rs, pos_is_gts) ==
    [j \in 1..num_imgs |->
        LET OfImage(r) == r[1] = j
            rois_j == SelectSeq(rs, OfImage)
            kept   == {k \in 1..Len(rois_j) :
                         k > Len(pos_is_gts[j]) \/ ~pos_is_gts[j][k]}
        IN  [k \in 1..Cardinality(kept) |-> Box("refined", i, j, k)]]

\* proposal_list after refine_bboxes, the result dropped
ProposalsAfterRefine_Dropped(i, rs, pos_is_gts) == proposal_list

\* proposal_list = bbox_head.refine_bboxes(...) (cascade_roi_head.py:260)
ProposalsAfterRefine(i, rs, pos_is_gts) == RefineBboxes(i, rs, pos_is_gts)

\* the pc after the losses of stage i, the last stage refined as well
AfterLosses_RefineLastToo(i) == "refine"

\* the pc after the bbox (and mask) losses of stage i: refine, or next stage
\* (cascade_roi_head.py:256)
AfterLosses(i) == IF i < num_stages - 1 THEN "refine" ELSE "loop"

\* the pc after the bbox loss (cascade_roi_head.py:218)
AfterBboxLoss(i) == IF with_mask THEN "mask" ELSE AfterLosses(i)

\* configuration and arguments of a call
CascadeInputs ==
    /\ num_stages \in 1..MaxStages
    /\ stage_loss_weights \in StageLossWeightChoices(num_stages)
    /\ with_mask \in BOOLEAN
    /\ share_roi_extractor \in (IF with_mask THEN BOOLEAN ELSE {FALSE})
    /\ \E n \in 1..MaxImgs :
         /\ img_meta = [j \in 1..n |-> j]
         /\ ft_gt_bboxes \in
              {[j \in 1..n |-> IF g[j] THEN <<Box("gt", 0, j, 1)>> ELSE <<>>] :
                  g \in [1..n -> BOOLEAN]}
         /\ ft_proposals \in
              {[j \in 1..n |-> [k \in 1..c[j] |-> Box("prop", 0, j, k)]] :
                  c \in [1..n -> 0..MaxProposals]}

\* forward_train has been called (cascade_roi_head.py:166)
CascadeCalled ==
    /\ CascadeInputs
    /\ ft_pc = "loop"
    /\ current_stage = -1
    /\ img_j = 0
    /\ proposal_list = ft_proposals
    /\ assign_result = <<>>
    /\ sampling_results = <<>>
    /\ rois = <<>>
    /\ bbox_feats = <<>>
    /\ pos_inds = <<>>
    /\ mask_feats = <<>>
    /\ pos_labels = <<>>
    /\ losses = {}
    /\ ft_log = <<>>
    /\ stage_inputs = <<>>
    /\ refine_ret = <<>>
    /\ num_rois = <<>>
    /\ loss_writes = <<>>

\* no call of forward_train is under way
CascadeIdle ==
    /\ num_stages = 1
    /\ stage_loss_weights = << <<1, 1>> >>
    /\ with_mask = FALSE
    /\ share_roi_extractor = FALSE
    /\ img_meta = <<>>
    /\ ft_gt_bboxes = <<>>
    /\ ft_proposals = <<>>
    /\ ft_pc = "idle"
    /\ current_stage = -1
    /\ img_j = 0
    /\ proposal_list = <<>>
    /\ assign_result = <<>>
    /\ sampling_results = <<>>
    /\ rois = <<>>
    /\ bbox_feats = <<>>
    /\ pos_inds = <<>>
    /\ mask_feats = <<>>
    /\ pos_labels = <<>>
    /\ losses = {}
    /\ ft_log = <<>>
    /\ stage_inputs = <<>>
    /\ refine_ret = <<>>
    /\ num_rois = <<>>
    /\ loss_writes = <<>>

cascadeConfig == <<num_stages, stage_loss_weights, with_mask,
                   share_roi_extractor, img_meta, ft_gt_bboxes, ft_proposals>>

\* for i in range(self.num_stages): the next stage begins
\* (cascade_roi_head.py:167-179)
StageBegin ==
    /\ ft_pc = "loop"
    /\ current_stage + 1 < num_stages
    /\ current_stage' = current_stage + 1
    /\ sampling_results' = <<>>
    /\ img_j' = 1
    /\ stage_inputs' = Append(stage_inputs, [assign |-> <<>>, sample |-> <<>>])
    /\ refine_ret' = Append(refine_ret, None)
    /\ ft_pc' = "assign"
    \* the previous stage's values of these locals are dead
    /\ assign_result' = <<>>
    /\ rois' = <<>>
    /\ bbox_feats' = <<>>
    /\ pos_inds' = <<>>
    /\ mask_feats' = <<>>
    /\ pos_labels' = <<>>
    /\ UNCHANGED notCascade
    /\ UNCHANGED <<cascadeConfig, proposal_list, losses, ft_log, num_rois,
                   loss_writes>>

\* bbox_assigner.assign(proposal_list[j], gt_bboxes[j], ...): the first
\* num_pos proposals are matched to a gt (cascade_roi_head.py:182-184)
AssignStep ==
    /\ ft_pc = "assign"
    /\ \E npos \in 0..(IF ft_gt_bboxes[img_j] # <<>>
                       THEN Len(proposal_list[img_j]) ELSE 0) :
         assign_result' = [num_pos |-> npos]
    /\ stage_inputs' =
          [stage_inputs EXCEPT ![current_stage + 1].assign =
              Append(@, proposal_list[img_j])]
    /\ ft_log' = Append(ft_log, <<"assign", current_stage, img_j>>)
    /\ ft_pc' = "sample"
    /\ UNCHANGED notCascade
    /\ UNCHANGED <<cascadeConfig, current_stage, img_j, proposal_list,
                   sampling_results, rois, bbox_feats, pos_inds, mask_feats,
                   pos_labels, losses, refine_ret, num_rois, loss_writes>>

\* bbox_sampler.sample(assign_result, proposal_list[j], gt_bboxes[j], ...):
\* the positives are the gt boxes (when added as proposals) and the matched
\* proposals, the negatives the other proposals
\* (cascade_roi_head.py:185-191)
SampleStep ==
    /\ ft_pc = "sample"
    /\ \E add_gt \in (IF ft_gt_bboxes[img_j] # <<>> THEN BOOLEAN ELSE {FALSE}) :
         LET props == proposal_list[img_j]
             npos  == assign_result.num_pos
             gts   == IF add_gt THEN ft_gt_bboxes[img_j] ELSE <<>>
             pos   == gts \o SubSeq(props, 1, npos)
             neg   == SubSeq(props, npos + 1, Len(props))
         IN  sampling_results' = Append(sampling_results,
                [pos_bboxes    |-> pos,
                 neg_bboxes    |-> neg,
                 bboxes        |-> pos \o neg,
                 pos_is_gt     |-> [k \in 1..Len(pos) |-> k <= Len(gts)],
                 pos_gt_labels |-> [k \in 1..Len(pos) |-> 1]])
    /\ stage_inputs' =
          [stage_inputs EXCEPT ![current_stage + 1].sample =
              Append(@, proposal_list[img_j])]
    /\ ft_log' = Append(ft_log, <<"sample", current_stage, img_j>>)
    /\ IF img_j < num_imgs
       THEN img_j' = img_j + 1 /\ ft_pc' = "assign"
       ELSE img_j' = img_j /\ ft_pc' = "rois"
    /\ UNCHANGED notCascade
    /\ UNCHANGED <<cascadeConfig, current_stage, proposal_list, assign_result,
                   rois, bbox_feats, pos_inds, mask_feats, pos_labels, losses,
                   refine_ret, num_rois, loss_writes>>

\* the pc after bbox2roi when the stage goes on whatever the rois are
AfterRois_NoContinue(n) == "extract"

\* the pc after bbox2roi gave n rois: `continue` when there is none
\* (cascade_roi_head.py:199-202)
AfterRois(n) == IF n = 0 THEN "loop" ELSE "extract"

\* rois = bbox2roi(...); if len(rois) == 0: continue
\* (cascade_roi_head.py:197-202)
RoisEmpty ==
    /\ ft_pc = "rois"
    /\ LET rs == bbox2roi([j \in 1..num_imgs |-> sampling_results[j].bboxes],
                          num_imgs)
       IN  /\ Len(rs) = 0
           /\ rois' = rs
           /\ num_rois' = Append(num_rois, Len(rs))
           /\ ft_pc' = AfterRois(Len(rs))
    /\ UNCHANGED notCascade
    /\ UNCHANGED <<cascadeConfig, current_stage, img_j, proposal_list,
                   assign_result, sampling_results, bbox_feats, pos_inds,
                   mask_feats, pos_labels, losses, ft_log, stage_inputs,
                   refine_ret, loss_writes>>

\* rois = bbox2roi(...), not empty (cascade_roi_head.py:197-199)
RoisReady ==
    /\ ft_pc = "rois"
    /\ LET rs == bbox2roi([j \in 1..num_imgs |-> sampling_results[j].bboxes],
                          num_imgs)
       IN  /\ Len(rs) > 0
           /\ rois' = rs
           /\ num_rois' = Append(num_rois, Len(rs))
           /\ ft_pc' = AfterRois(Len(rs))
    /\ UNCHANGED notCascade
    /\ UNCHANGED <<cascadeConfig, current_stage, img_j, proposal_list,
                   assign_result, sampling_results, bbox_feats, pos_inds,
                   mask_feats, pos_labels, losses, ft_log, stage_inputs,
                   refine_ret, loss_writes>>

\* bbox_feats = bbox_roi_extractor(x, rois), through the shared head
\* (cascade_roi_head.py:204-207)
ExtractStep ==
    /\ ft_pc = "extract"
    /\ bbox_feats' = [r \in 1..Len(rois) |-> <<"bbox_feat", current_stage, rois[r]>>]
    /\ ft_log' = Append(ft_log, <<"extract", current_stage, 0>>)
    /\ ft_pc' = "bbox_head"
    /\ UNCHANGED notCascade
    /\ UNCHANGED <<cascadeConfig, current_stage, img_j, proposal_list,
                   assign_result, sampling_results, rois, pos_inds, mask_feats,
                   pos_labels, losses, stage_inputs, refine_ret, num_rois,
                   loss_writes>>

\* cls_score, bbox_pred = bbox_head(bbox_feats); the targets, the loss and
\* its entries in losses (cascade_roi_head.py:208-215)
BboxHeadStep ==
    /\ ft_pc = "bbox_head"
    /\ losses' = UpdateLosses(losses, current_stage, BboxHeadLoss(current_stage))
    /\ loss_writes' = loss_writes
          \o LossWrites(current_stage, "bbox", BboxHeadLoss(current_stage))
    /\ ft_log' = Append(ft_log, <<"predict", current_stage, 0>>)
    /\ ft_pc' = AfterBboxLoss(current_stage)
    /\ UNCHANGED notCascade
    /\ UNCHANGED <<cascadeConfig, current_stage, img_j, proposal_list,
                   assign_result, sampling_results, rois, bbox_feats, pos_inds,
                   mask_feats, pos_labels, stage_inputs, refine_ret, num_rois>>

\* pos_labels = torch.cat([res.pos_gt_labels for res in sampling_results])
RECURSIVE CatPosLabels(_, _)
CatPosLabels(results, j) ==
    IF j = 0 THEN <<>>
    ELSE CatPosLabels(results, j - 1) \o results[j].pos_gt_labels

RECURSIVE CatPosInds(_, _)
\* pos_inds with, per image, the 0s of the negatives before the 1s of the
\* positives
CatPosInds_NegFirst(results, j) ==
    IF j = 0 THEN <<>>
    ELSE CatPosInds(results, j - 1)
            \o [k \in 1..Len(results[j].neg_bboxes) |-> 0]
            \o [k \in 1..Len(results[j].pos_bboxes) |-> 1]

\* pos_inds: per image, a 1 per positive box, then a 0 per negative box
\* (cascade_roi_head.py:229-242)
CatPosInds(results, j) ==
    IF j = 0 THEN <<>>
    ELSE CatPosInds(results, j - 1)
            \o [k \in 1..Len(results[j].pos_bboxes) |-> 1]
            \o [k \in 1..Len(results[j].neg_bboxes) |-> 0]

\* t[mask] for a 0/1 mask as long as t
RECURSIVE MaskSelect(_, _)
MaskSelect(t, mask) ==
    IF t = <<>> THEN <<>>
    ELSE (IF Head(mask) = 1 THEN <<Head(t)>> ELSE <<>>)
            \o MaskSelect(Tail(t), Tail(mask))

\* the mask head's forward and loss and its entries in losses
\* (cascade_roi_head.py:244-253)
MaskHeadLossStep ==
    /\ pos_labels' = CatPosLabels(sampling_results, num_imgs)
    /\ losses' = UpdateLosses(losses, current_stage, MaskHeadLoss(current_stage))
    /\ loss_writes' = loss_writes
          \o LossWrites(current_stage, "mask", MaskHeadLoss(current_stage))
    /\ ft_log' = Append(ft_log, <<"mask", current_stage, 0>>)
    /\ ft_pc' = AfterLosses(current_stage)
    /\ UNCHANGED notCascade
    /\ UNCHANGED <<cascadeConfig, current_stage, img_j, proposal_list,
                   assign_result, sampling_results, rois, bbox_feats,
                   stage_inputs, refine_ret, num_rois>>

\* the mask branch with its own RoI extractor (cascade_roi_head.py:219-226)
MaskOwnExtractor ==
    /\ ft_pc = "mask"
    /\ ~share_roi_extractor
    /\ LET pos_rois == bbox2roi(
              [j \in 1..num_imgs |-> sampling_results[j].pos_bboxes], num_imgs)
       IN  mask_feats' = [r \in 1..Len(pos_rois) |->
                            <<"mask_feat", current_stage, pos_rois[r]>>]
    /\ pos_inds' = pos_inds
    /\ MaskHeadLossStep

\* the mask branch reusing the positive bbox feats
\* (cascade_roi_head.py:227-243)
MaskSharedExtractor ==
    /\ ft_pc = "mask"
    /\ share_roi_extractor
    /\ pos_inds' = CatPosInds(sampling_results, num_imgs)
    /\ mask_feats' = MaskSelect(bbox_feats, CatPosInds(sampling_results, num_imgs))
    /\ MaskHeadLossStep

\* refine bboxes (cascade_roi_head.py:255-261)
RefineStep ==
    /\ ft_pc = "refine"
    /\ LET pos_is_gts == [j \in 1..num_imgs |-> sampling_results[j].pos_is_gt]
           ret == RefineBboxes(current_stage, rois, pos_is_gts)
       IN  /\ refine_ret' = [refine_ret EXCEPT ![current_stage + 1] = Tensor(ret)]
           /\ proposal_list' = ProposalsAfterRefine(current_stage, rois, pos_is_gts)
    /\ ft_log' = Append(ft_log, <<"refine", current_stage, 0>>)
    /\ ft_pc' = "loop"
    /\ UNCHANGED notCascade
    /\ UNCHANGED <<cascadeConfig, current_stage, img_j, assign_result,
                   sampling_results, rois, bbox_feats, pos_inds, mask_feats,
                   pos_labels, losses, stage_inputs, num_rois, loss_writes>>

\* return losses (cascade_roi_head.py:263)
ForwardTrainReturn ==
    /\ ft_pc = "loop"
    /\ current_stage + 1 = num_stages
    /\ ft_pc' = "returned"
    /\ UNCHANGED notCascade
    /\ UNCHANGED <<cascadeConfig, current_stage, img_j, proposal_list,
                   assign_result, sampling_results, rois, bbox_feats, pos_inds,
                   mask_feats, pos_labels, losses, ft_log, stage_inputs,
                   refine_ret, num_rois, loss_writes>>

(***************************************************************************)
(* YOLOXModeSwitchHook.before_train_epoch.  The hook's module is not part  *)
(* of the sources at hand; its steps are taken from what the test          *)
(* test_yolox_mode_switch_hook sets up, calls and asserts.                 *)
(***************************************************************************)
\* the epoch at hand is the one the mode is switched at
EpochToBeSwitched == runner_epoch + 1 = max_epochs - num_last_epochs

\* the model whose bbox_head is switched: runner.model, or runner.model.module
\* when runner.model is a wrapper
SwitchedModel == IF is_model_wrapper THEN "module" ELSE "model"

\* hook._restart_dataloader after the switch, set whatever the dataloader
RestartAfterSwitch_Always == TRUE

\* hook._restart_dataloader after the switch
RestartAfterSwitch ==
    IF persistent_workers THEN TRUE ELSE restart_dataloader

\* the dataloader's initialized flag after the switch
InitializedAfterSwitch ==
    IF persistent_workers THEN FALSE ELSE DataLoader__initialized

\* the dataloader's initialized flag after a call that does not switch, the
\* flag never set again
InitializedAfterNoSwitch_Kept == DataLoader__initialized

\* the dataloader's initialized flag after a call that does not switch
InitializedAfterNoSwitch ==
    IF restart_dataloader THEN TRUE ELSE DataLoader__initialized

\* the runner and the hook as the test builds them
\* (test_yolox_mode_switch_hook.py:13-24, 35-44)
HookBuilt ==
    /\ max_epochs \in 1..MaxEpochs
    /\ num_last_epochs \in 0..MaxEpochs
    /\ runner_epoch \in 0..(max_epochs - 1)
    /\ is_model_wrapper \in BOOLEAN
    /\ persistent_workers \in BOOLEAN
    /\ use_l1 = [model |-> FALSE, module |-> FALSE]
    /\ DataLoader__initialized = TRUE
    /\ restart_dataloader = FALSE
    /\ hook_pc = "before_train_epoch"
    /\ hook_calls = <<>>

\* no runner, no hook
HookIdle ==
    /\ max_epochs = 1
    /\ num_last_epochs = 0
    /\ runner_epoch = 0
    /\ is_model_wrapper = FALSE
    /\ persistent_workers = FALSE
    /\ use_l1 = [model |-> FALSE, module |-> FALSE]
    /\ DataLoader__initialized = TRUE
    /\ restart_dataloader = FALSE
    /\ hook_pc = "idle"
    /\ hook_calls = <<>>

hookConfig == <<num_last_epochs, max_epochs, is_model_wrapper,
                persistent_workers>>

\* hook.before_train_epoch(runner) at the switch epoch
BeforeTrainEpochSwitch ==
    /\ hook_pc = "before_train_epoch"
    /\ EpochToBeSwitched
    /\ DataLoader__initialized' = InitializedAfterSwitch
    /\ restart_dataloader' = RestartAfterSwitch
    /\ use_l1' = [use_l1 EXCEPT ![SwitchedModel] = TRUE]
    /\ hook_calls' = Append(hook_calls, runner_epoch)
    /\ hook_pc' = "train_epoch"
    /\ UNCHANGED <<hookConfig, runner_epoch>>
    /\ UNCHANGED notHook

\* hook.before_train_epoch(runner) at any other epoch
BeforeTrainEpochNoSwitch ==
    /\ hook_pc = "before_train_epoch"
    /\ ~EpochToBeSwitched
    /\ DataLoader__initialized' = InitializedAfterNoSwitch
    /\ hook_calls' = Append(hook_calls, runner_epoch)
    /\ hook_pc' = "train_epoch"
    /\ UNCHANGED <<hookConfig, runner_epoch, restart_dataloader, use_l1>>
    /\ UNCHANGED notHook

\* the epoch is trained and runner.epoch moves on
\* (test_yolox_mode_switch_hook.py:30, 50)
TrainEpoch ==
    /\ hook_pc = "train_epoch"
    /\ runner_epoch' = runner_epoch + 1
    /\ hook_pc' = IF runner_epoch + 1 < max_epochs
                  THEN "before_train_epoch" ELSE "done"
    /\ UNCHANGED <<hookConfig, restart_dataloader, use_l1,
                   DataLoader__initialized, hook_calls>>
    /\ UNCHANGED notHook

(***************************************************************************)
(* SemiMixUpDetector (semi_mixup.py).  A module is a record of its         *)
(* components, its training flag and the requires_grad flag of each of     *)
(* its parameters (one parameter per component, under the component's      *)
(* name); modules[id] is the module of identity id.  The gt_instances of   *)
(* a sample are a record of bboxes and labels, the pred_instances of a     *)
(* prediction a record of bboxes, labels and scores (in tenths); the       *)
(* data variables hold those of the call at hand, one per sample.          *)
(***************************************************************************)
\* detector configs: a two-stage and a single-stage detector, with and
\* without a frozen backbone
DetectorChoices ==
    {[components |-> c, frozen |-> f] :
        c \in {{"backbone", "neck", "rpn_head", "roi_head"},
               {"backbone", "neck", "bbox_head"}},
        f \in {{}, {"backbone"}}}

ScoreChoices == {3, 7}
ScoreThrChoices == {3, 5}
InferOnChoices == {"teacher", "student", "None"}
BatchSizeChoices == {1, 2}

\* MODELS.build(detector): a new module (semi_mixup.py:23-24)
Build(cfg) ==
    [components    |-> cfg.components,
     training      |-> TRUE,
     requires_grad |-> [p \in cfg.components |-> p \notin cfg.frozen]]

\* freeze(model), the parameters left as they are
Freeze_EvalOnly(model) == [model EXCEPT !.training = FALSE]

\* freeze(model) (semi_mixup.py:29-33)
Freeze(model) ==
    [model EXCEPT !.training = FALSE,
                  !.requires_grad = [p \in DOMAIN @ |-> FALSE]]

\* t[flags] for a boolean mask as long as t
RECURSIVE BoolIndex(_, _)
BoolIndex(t, flags) ==
    IF t = <<>> THEN <<>>
    ELSE (IF Head(flags) THEN <<Head(t)>> ELSE <<>>)
            \o BoolIndex(Tail(t), Tail(flags))

\* the boxes and labels the teacher predicts, in its order
PseudoBoxPool == << <<0, 0, 4, 4>>, <<0, 0, 1, 4>>, <<2, 2, 6, 3>>, <<0, 0, 8, 8>> >>
PseudoLabelPool == <<2, 1, 3, 1>>

\* gt_instances without an instance, and gt_instances a sample may come with
NoInstances == [bboxes |-> <<>>, labels |-> <<>>]
OldInstances == [bboxes |-> << <<1, 1, 2, 2>> >>, labels |-> <<9>>]

\* the gt_instances a batch of n samples may come with
BeforeChoices(n) == {[k \in 1..n |-> NoInstances], [k \in 1..n |-> OldInstances]}

\* the new gt_instances with a score at the threshold kept as well
ValidInstances_NonStrict(results) ==
    LET valid_flag == [k \in 1..Len(results.scores) |->
                          results.scores[k] >= semi_train_cfg.score_thr]
    IN  [bboxes |-> BoolIndex(results.bboxes, valid_flag),
         labels |-> BoolIndex(results.labels, valid_flag)]

\* the new gt_instances of a sample, from the prediction for it
\* (semi_mixup.py:135-139)
ValidInstances(results) ==
    LET valid_flag == [k \in 1..Len(results.scores) |->
                          results.scores[k] > semi_train_cfg.score_thr]
    IN  [bboxes |-> BoolIndex(results.bboxes, valid_flag),
         labels |-> BoolIndex(results.labels, valid_flag)]

\* what teacher.predict may return for a sample
PredictChoices ==
    UNION {{[bboxes |-> SubSeq(PseudoBoxPool, 1, n),
             labels |-> SubSeq(PseudoLabelPool, 1, n),
             scores |-> sc] : sc \in [1..n -> ScoreChoices]} : n \in 0..MaxPreds}

\* the gt_instances of the batch after the loop over zip(batch_data_samples,
\* results_list) (semi_mixup.py:134-140)
UpdatedBatch(results) == [k \in 1..Len(results) |-> ValidInstances(results[k])]

\* the boolean masks of length n
Masks(n) == [1..n -> BOOLEAN]

\* the gt_instances an unsup_student sample may end with: the pseudo
\* instances that pass the filter, then those of the supervised sample
StudentChoices(pseudo, sup) ==
    {[bboxes |-> BoolIndex(pseudo.bboxes, valid_mask) \o sup.bboxes,
      labels |-> BoolIndex(pseudo.labels, valid_mask) \o sup.labels] :
        valid_mask \in Masks(Len(pseudo.bboxes))}

\* the detector is about to be constructed
SemiUnbuilt ==
    /\ detector \in DetectorChoices
    /\ semi_train_cfg \in {[score_thr |-> t] : t \in ScoreThrChoices}
    /\ semi_test_cfg \in {[infer_on |-> o] : o \in InferOnChoices}
    /\ batch_size = 1
    /\ modules = <<>>
    /\ teacher = 0
    /\ student = 0
    /\ pseudo_before = <<>>
    /\ results_list = <<>>
    /\ unsup_teacher_instances = <<>>
    /\ unsup_student_instances = <<>>
    /\ semi_pc = "init"
    /\ semi_log = <<>>

\* no detector
SemiIdle ==
    /\ detector = [components |-> {}, frozen |-> {}]
    /\ semi_train_cfg = [score_thr |-> 0]
    /\ semi_test_cfg = [infer_on |-> "None"]
    /\ batch_size = 1
    /\ modules = <<>>
    /\ teacher = 0
    /\ student = 0
    /\ pseudo_before = <<>>
    /\ results_list = <<>>
    /\ unsup_teacher_instances = <<>>
    /\ unsup_student_instances = <<>>
    /\ semi_pc = "idle"
    /\ semi_log = <<>>

\* a detector just constructed, for batches of one size or another
SemiBuilt ==
    /\ detector \in {d \in DetectorChoices :
                        d.frozen = {} /\ "roi_head" \in d.components}
    /\ semi_train_cfg \in {[score_thr |-> t] : t \in ScoreThrChoices}
    /\ semi_test_cfg = [infer_on |-> "None"]
    /\ batch_size \in BatchSizeChoices
    /\ modules = <<Freeze(Build(detector)), Build(detector)>>
    /\ teacher = 1
    /\ student = 2
    /\ pseudo_before = <<>>
    /\ results_list = <<>>
    /\ unsup_teacher_instances = <<>>
    /\ unsup_student_instances = <<>>
    /\ semi_pc = "built"
    /\ semi_log = <<>>

semiConfig == <<detector, semi_train_cfg, semi_test_cfg, batch_size>>
semiObjects == <<modules, teacher, student, semi_pc>>

\* SemiMixUpDetector.__init__ (semi_mixup.py:15-27)
SemiInit ==
    /\ semi_pc = "init"
    /\ LET built1 == Append(modules, Build(detector))
           built2 == Append(built1, Build(detector))
       IN  /\ teacher' = Len(built1)
           /\ student' = Len(built2)
           /\ modules' = [built2 EXCEPT ![Len(built1)] = Freeze(@)]
    /\ semi_pc' = "built"
    /\ UNCHANGED <<semiConfig, pseudo_before, results_list,
                   unsup_teacher_instances, unsup_student_instances, semi_log>>
    /\ UNCHANGED notSemi

\* update_pseudo_instances(batch_inputs, batch_data_samples)
\* (semi_mixup.py:132-140)
UpdatePseudoInstances ==
    /\ semi_pc = "built"
    /\ Len(semi_log) < MaxCalls
    /\ \E before \in BeforeChoices(batch_size),
          results \in [1..batch_size -> PredictChoices] :
          /\ pseudo_before' = before
          /\ results_list' = results
          /\ unsup_teacher_instances' = UpdatedBatch(results)
    /\ unsup_student_instances' = <<>>
    /\ semi_log' = Append(semi_log,
          [call |-> "update_pseudo_instances",
           ran  |-> << <<teacher, "predict">> >>])
    /\ UNCHANGED <<semiConfig, semiObjects>>
    /\ UNCHANGED notSemi

\* loss(multi_batch_inputs, multi_batch_data_samples): the supervised loss
\* of the student, the teacher's pseudo instances, projected onto the
\* student's view and filtered, the mixup with a supervised sample, and the
\* student's loss on the result (semi_mixup.py:35-56)
SemiLoss ==
    /\ semi_pc = "built"
    /\ Len(semi_log) < MaxCalls
    /\ \E results \in [1..batch_size -> PredictChoices],
          sup \in {NoInstances, OldInstances} :
          /\ pseudo_before' = [k \in 1..batch_size |-> NoInstances]
          /\ results_list' = results
          /\ unsup_teacher_instances' = UpdatedBatch(results)
          /\ \E student_batch \in [1..batch_size ->
                  UNION {StudentChoices(UpdatedBatch(results)[k], sup) :
                            k \in 1..batch_size}] :
                /\ \A k \in 1..batch_size :
                      student_batch[k] \in
                          StudentChoices(UpdatedBatch(results)[k], sup)
                /\ unsup_student_instances' = student_batch
    /\ semi_log' = Append(semi_log,
          [call |-> "loss",
           ran  |-> << <<student, "loss">>, <<teacher, "predict">>,
                       <<student, "loss">> >>])
    /\ UNCHANGED <<semiConfig, semiObjects>>
    /\ UNCHANGED notSemi

\* predict(batch_inputs, batch_data_samples) (semi_mixup.py:155-161)
SemiPredict ==
    /\ semi_pc = "built"
    /\ Len(semi_log) < MaxCalls
    /\ semi_log' = Append(semi_log,
          [call |-> "predict",
           ran  |-> << <<IF semi_test_cfg.infer_on = "teacher"
                         THEN teacher ELSE student, "predict">> >>])
    /\ pseudo_before' = <<>>
    /\ results_list' = <<>>
    /\ unsup_teacher_instances' = <<>>
    /\ unsup_student_instances' = <<>>
    /\ UNCHANGED <<semiConfig, semiObjects>>
    /\ UNCHANGED notSemi

(***************************************************************************)
(* Translate (auto_augment.py:86-310).  Probabilities and random draws     *)
(* are in tenths; levels are whole numbers; pixel coordinates are          *)
(* integers.  results is a function of the keys it has.  An image, a mask  *)
(* or a segmentation map is opaque, and warping it gives                   *)
(* <<"warped", data, axis, offset>>.                                       *)
(***************************************************************************)
\* Translate._MAX_LEVEL (auto_augment.py:108)
MAX_LEVEL == 10

LevelChoices == {-1, 0, 1, 5, MAX_LEVEL, MAX_LEVEL + 1}
ProbChoices == {0, 5, 10, 11}
AxisChoices == {"x", "y", "z"}
MaxTranslateOffsetChoices == {10, 25}
MinSizeChoices == {0, 1}
RandChoices == {0, 4, 9}

\* assert 0 <= level <= Translate._MAX_LEVEL (auto_augment.py:119)
LevelAccepted == 0 <= level /\ level <= MAX_LEVEL

\* assert 0 <= prob <= 1.0 (auto_augment.py:122)
ProbAccepted == 0 <= prob /\ prob <= 10

\* assert axis in ('x', 'y') (auto_augment.py:135)
AxisAccepted == axis \in {"x", "y"}

\* int((level / Translate._MAX_LEVEL) * max_translate_offset), for a level
\* that is not negative (auto_augment.py:140-141)
Offset == (level * max_translate_offset) \div MAX_LEVEL

\* the boxes a bbox field may hold, in an image of h = 6 and w = 8
TrImgShape == <<6, 8, 3>>
TrBoxPool == << <<0, 0, 4, 3>>, <<5, 1, 8, 5>>, <<2, 2, 3, 6>>, <<6, 0, 8, 6>> >>

TrBoxLists == UNION {[1..n -> {TrBoxPool[k] : k \in 1..Len(TrBoxPool)}] : n \in 0..MaxTrBoxes}

\* the labels and the masks that go with n boxes
TrLabels(n) == [k \in 1..n |-> 10 + k]
TrMasks(kind, n) == [kind |-> kind, masks |-> [k \in 1..n |-> <<"mask", k>>]]

\* results dicts of the loading pipeline: gt_bboxes with or without labels
\* and masks, with or without a gt_bboxes_ignore of no label and no mask
TrResultsChoices ==
    {   ("img" :> <<"img">>) @@ ("img_shape" :> TrImgShape)
     @@ ("bbox_fields" :> (<<"gt_bboxes">> \o (IF ign THEN <<"gt_bboxes_ignore">> ELSE <<>>)))
     @@ ("mask_fields" :> (IF mk = "none" THEN <<>> ELSE <<"gt_masks">>))
     @@ ("gt_bboxes" :> b)
     @@ (IF ign THEN "gt_bboxes_ignore" :> <<TrBoxPool[1]>> ELSE <<>>)
     @@ (IF lab THEN "gt_labels" :> TrLabels(Len(b)) ELSE <<>>)
     @@ (IF mk = "none" THEN <<>> ELSE "gt_masks" :> TrMasks(mk, Len(b))) :
        b \in TrBoxLists, ign \in BOOLEAN, lab \in BOOLEAN,
        mk \in {"none", "bitmap", "polygon"}}

\* results.get(key, default)
Get(d, k, default) == IF k \in DOMAIN d THEN d[k] ELSE default

\* d with d[k] = v
Put(d, k, v) == (k :> v) @@ d

\* warpAffine(data, trans_matrix, ...), the matrix being that of a shift by
\* off along ax (auto_augment.py:150-177, 199-202)
WarpAffine(data, ax, off) == <<"warped", data, ax, off>>

\* one box of _translate_bboxes, the shifted coordinates not clipped
TranslateBox_Unclipped(b, ax, off, h, w) ==
    IF ax = "x" THEN <<b[1] + off, b[2], b[3] + off, b[4]>>
    ELSE <<b[1], b[2] + off, b[3], b[4] + off>>

\* one box of _translate_bboxes (auto_augment.py:227-234)
TranslateBox(b, ax, off, h, w) ==
    IF ax = "x"
    THEN <<Max2(0, b[1] + off), b[2], Min2(w, b[3] + off), b[4]>>
    ELSE <<b[1], Max2(0, b[2] + off), b[3], Min2(h, b[4] + off)>>

\* the keys of a list of fields
Fields(keys) == {keys[i] : i \in 1..Len(keys)}

\* _translate_img (auto_augment.py:215-221)
TranslateImg(d, ax, off) ==
    [key \in DOMAIN d |->
        IF key \in Fields(Get(d, "img_fields", <<"img">>))
        THEN WarpAffine(d[key], ax, off) ELSE d[key]]

\* _translate_bboxes (auto_augment.py:223-239)
TranslateBboxes(d, ax, off) ==
    LET h == d["img_shape"][1]
        w == d["img_shape"][2]
    IN  [key \in DOMAIN d |->
            IF key \in Fields(Get(d, "bbox_fields", <<>>))
            THEN [k \in 1..Len(d[key]) |-> TranslateBox(d[key][k], ax, off, h, w)]
            ELSE d[key]]

\* _translate_masks raises: a PolygonMasks field with a mask
\* (auto_augment.py:253-261)
TranslateMasksRaises(d) ==
    \E k \in 1..Len(Get(d, "mask_fields", <<>>)) :
        LET m == d[Get(d, "mask_fields", <<>>)[k]]
        IN  m.kind = "polygon" /\ m.masks # <<>>

\* _translate_masks when it does not raise (auto_augment.py:241-270)
TranslateMasks(d, ax, off) ==
    [key \in DOMAIN d |->
        IF /\ key \in Fields(Get(d, "mask_fields", <<>>))
           /\ d[key].kind = "bitmap"
           /\ d[key].masks # <<>>
        THEN [d[key] EXCEPT !.masks = [k \in 1..Len(d[key].masks) |->
                                         WarpAffine(d[key].masks[k], ax, off)]]
        ELSE d[key]]

\* _translate_seg (auto_augment.py:272-278)
TranslateSeg(d, ax, off) ==
    [key \in DOMAIN d |->
        IF key \in Fields(Get(d, "seg_fields", <<>>))
        THEN WarpAffine(d[key], ax, off) ELSE d[key]]

bbox2label == ("gt_bboxes" :> "gt_labels") @@ ("gt_bboxes_ignore" :> "gt_labels_ignore")
bbox2mask == ("gt_bboxes" :> "gt_masks") @@ ("gt_bboxes_ignore" :> "gt_masks_ignore")

\* valid_inds of a bbox field (auto_augment.py:292-294)
ValidInds(boxes, ms) ==
    [k \in 1..Len(boxes) |->
        boxes[k][3] - boxes[k][1] > ms /\ boxes[k][4] - boxes[k][2] > ms]

\* the label field of a bbox field, left as it is
FilterLabels_Unfiltered(labels, valid_inds) == labels

\* results[label_key][valid_inds] (auto_augment.py:299)
FilterLabels(labels, valid_inds) == BoolIndex(labels, valid_inds)

\* _filter_invalid (auto_augment.py:280-304)
RECURSIVE FilterInvalid(_, _, _)
FilterInvalid(d, keys, ms) ==
    IF keys = <<>> THEN d
    ELSE LET key        == Head(keys)
             valid_inds == ValidInds(d[key], ms)
             d1         == Put(d, key, BoolIndex(d[key], valid_inds))
             label_key  == bbox2label[key]
             d2         == IF label_key \in DOMAIN d1
                           THEN Put(d1, label_key,
                                    FilterLabels(d1[label_key], valid_inds))
                           ELSE d1
             mask_key   == bbox2mask[key]
             d3         == IF mask_key \in DOMAIN d2
                           THEN Put(d2, mask_key,
                                    [d2[mask_key] EXCEPT !.masks =
                                        BoolIndex(@, valid_inds)])
                           ELSE d2
         IN  FilterInvalid(d3, Tail(keys), ms)

\* Translate(level, prob, axis=axis, max_translate_offset=...) is called
TranslateNew ==
    /\ level \in LevelChoices
    /\ prob \in ProbChoices
    /\ axis \in AxisChoices
    /\ max_translate_offset \in MaxTranslateOffsetChoices
    /\ offset = 0
    /\ min_size = 0
    /\ tr_results_in = <<>>
    /\ tr_results = <<>>
    /\ tr_offset = 0
    /\ tr_pc = "new"

\* no Translate
TranslateIdle ==
    /\ level = 0
    /\ prob = 0
    /\ axis = "x"
    /\ max_translate_offset = 0
    /\ offset = 0
    /\ min_size = 0
    /\ tr_results_in = <<>>
    /\ tr_results = <<>>
    /\ tr_offset = 0
    /\ tr_pc = "idle"

translateConfig == <<level, prob, axis, max_translate_offset>>

\* Translate.__init__, an assertion failing (auto_augment.py:117-137)
TranslateInitAssertionError ==
    /\ tr_pc = "new"
    /\ ~(LevelAccepted /\ ProbAccepted /\ AxisAccepted)
    /\ tr_pc' = "AssertionError"
    /\ UNCHANGED <<translateConfig, offset, min_size, tr_results_in,
                   tr_results, tr_offset>>
    /\ UNCHANGED notTranslate

\* Translate.__init__ (auto_augment.py:110-147)
TranslateInit ==
    /\ tr_pc = "new"
    /\ LevelAccepted /\ ProbAccepted /\ AxisAccepted
    /\ offset' = Offset
    /\ tr_pc' = "built"
    /\ UNCHANGED <<translateConfig, min_size, tr_results_in, tr_results,
                   tr_offset>>
    /\ UNCHANGED notTranslate

\* Translate.__call__, np.random.rand() > self.prob
\* (auto_augment.py:193-194)
TranslateSkip ==
    /\ tr_pc = "built"
    /\ \E res \in TrResultsChoices, ms \in MinSizeChoices, rand \in RandChoices :
          /\ rand > prob
          /\ min_size' = ms
          /\ tr_results_in' = res
          /\ tr_results' = res
    /\ tr_pc' = "skipped"
    /\ UNCHANGED <<translateConfig, offset, tr_offset>>
    /\ UNCHANGED notTranslate

\* the local offset: -self.offset if np.random.rand() < neg_offset_prob
\* else self.offset, for a neg_offset_prob strictly between 0 and 1
\* (auto_augment.py:196-197)
SignedOffsets == {-offset, offset}

\* Translate.__call__ raising in _translate_masks, the image and the boxes
\* translated already (auto_augment.py:193-207, 253-261)
TranslateNotImplemented ==
    /\ tr_pc = "built"
    /\ \E res \in TrResultsChoices, ms \in MinSizeChoices, rand \in RandChoices,
          off \in SignedOffsets :
          /\ ~(rand > prob)
          /\ TranslateMasksRaises(res)
          /\ min_size' = ms
          /\ tr_offset' = off
          /\ tr_results_in' = res
          /\ tr_results' = TranslateBboxes(TranslateImg(res, axis, off), axis, off)
    /\ tr_pc' = "NotImplementedError"
    /\ UNCHANGED <<translateConfig, offset>>
    /\ UNCHANGED notTranslate

\* Translate.__call__, the translation applied (auto_augment.py:193-213)
TranslateApply ==
    /\ tr_pc = "built"
    /\ \E res \in TrResultsChoices, ms \in MinSizeChoices, rand \in RandChoices,
          off \in SignedOffsets :
          /\ ~(rand > prob)
          /\ ~TranslateMasksRaises(res)
          /\ min_size' = ms
          /\ tr_offset' = off
          /\ tr_results_in' = res
          /\ tr_results' =
                LET d1 == TranslateImg(res, axis, off)
                    d2 == TranslateBboxes(d1, axis, off)
                    d3 == TranslateMasks(d2, axis, off)
                    d4 == TranslateSeg(d3, axis, off)
                IN  FilterInvalid(d4, Get(d4, "bbox_fields", <<>>), ms)
    /\ tr_pc' = "returned"
    /\ UNCHANGED <<translateConfig, offset>>
    /\ UNCHANGED notTranslate

(***************************************************************************)
(* TestAugModelWrapper.merge_aug_bboxes (model_wrapper.py:75-101).         *)
(*                                                                         *)
(* Boxes are <<x1, y1, x2, y2>> in whole pixels; a score is a number that  *)
(* names its detection: 10 * augmentation + position.                      *)
(***************************************************************************)
FlipDirections == {"horizontal", "vertical", "diagonal"}
OriShapeChoices == {<<6, 8, 3>>, <<9, 12, 3>>}
\* the k-th box an augmentation detects
AugBox(k) == <<k, k + 1, k + 3, k + 4>>
AugBoxes(n) == [k \in 1..n |-> AugBox(k)]
AugScores(a, n) == [k \in 1..n |-> 10 * a + k]
\* the metainfo of one augmented sample
ImgInfoChoices ==
    [ori_shape : OriShapeChoices, flip : {FALSE}, flip_direction : {None}]
        \cup [ori_shape : OriShapeChoices, flip : {TRUE},
              flip_direction : FlipDirections]

\* mmdet.structures.bbox.bbox_flip, on one box
bbox_flip1(box, img_shape, direction) ==
    LET h == img_shape[1]
        w == img_shape[2]
    IN  CASE direction = "horizontal" ->
               <<w - box[3], box[2], w - box[1], box[4]>>
          [] direction = "vertical" ->
               <<box[1], h - box[4], box[3], h - box[2]>>
          [] direction = "diagonal" ->
               <<w - box[3], h - box[4], w - box[1], h - box[2]>>
\* mmdet.structures.bbox.bbox_flip, on the boxes of one augmentation
bbox_flip(boxes, img_shape, direction) ==
    [k \in 1..Len(boxes) |-> bbox_flip1(boxes[k], img_shape, direction)]

\* one pass of the loop body: what is appended to recovered_bboxes
Recovered_AlwaysFlipped(boxes, img_info) ==
    bbox_flip(boxes, img_info[1].ori_shape,
              IF img_info[1].flip THEN img_info[1].flip_direction
              ELSE "horizontal")
Recovered(boxes, img_info) ==
    IF img_info[1].flip
    THEN bbox_flip(boxes, img_info[1].ori_shape, img_info[1].flip_direction)
    ELSE boxes

\* torch.cat(tensors, dim=0) of a non-empty list
RECURSIVE Cat(_)
Cat(tensors) ==
    IF Len(tensors) = 1 THEN tensors[1]
    ELSE tensors[1] \o Cat(Tail(tensors))

\* zip(aug_bboxes, img_metas): the loop that fills recovered_bboxes
RecoveredBboxes(boxes, metas) ==
    [a \in 1..Min2(Len(boxes), Len(metas)) |-> Recovered(boxes[a], metas[a])]

MergeIdle ==
    /\ aug_bboxes = <<>>
    /\ aug_scores = None
    /\ img_metas = <<>>
    /\ merged = None
    /\ merge_pc = "idle"

\* a call as merge_results makes it: one entry per augmentation in each list,
\* bboxes and scores of an augmentation from the same pred_instances
MergeCalled ==
    /\ \E n \in 0..MaxAugs :
         /\ \E counts \in [1..n -> 0..MaxAugBoxes] :
              /\ aug_bboxes = [a \in 1..n |-> AugBoxes(counts[a])]
              /\ aug_scores \in
                   {None, Tensor([a \in 1..n |-> AugScores(a, counts[a])])}
         /\ \E infos \in [1..n -> ImgInfoChoices] :
              img_metas = [a \in 1..n |-> <<infos[a]>>]
    /\ merged = None
    /\ merge_pc = "called"

mergeArgs == <<aug_bboxes, aug_scores, img_metas>>

\* torch.cat of an empty list
MergeAugBboxesRuntimeError ==
    /\ merge_pc = "called"
    /\ \/ RecoveredBboxes(aug_bboxes, img_metas) = <<>>
       \/ ~IsNone(aug_scores) /\ Data(aug_scores) = <<>>
    /\ merge_pc' = "RuntimeError"
    /\ UNCHANGED <<mergeArgs, merged>>
    /\ UNCHANGED notMerge

\* aug_scores is None: return bboxes
MergeAugBboxesNoScores ==
    /\ merge_pc = "called"
    /\ RecoveredBboxes(aug_bboxes, img_metas) # <<>>
    /\ IsNone(aug_scores)
    /\ merged' = [bboxes |-> Cat(RecoveredBboxes(aug_bboxes, img_metas))]
    /\ merge_pc' = "returned"
    /\ UNCHANGED mergeArgs
    /\ UNCHANGED notMerge

\* return bboxes, scores
MergeAugBboxes ==
    /\ merge_pc = "called"
    /\ RecoveredBboxes(aug_bboxes, img_metas) # <<>>
    /\ ~IsNone(aug_scores)
    /\ Data(aug_scores) # <<>>
    /\ merged' = [bboxes |-> Cat(RecoveredBboxes(aug_bboxes, img_metas)),
                  scores |-> Cat(Data(aug_scores))]
    /\ merge_pc' = "returned"
    /\ UNCHANGED mergeArgs
    /\ UNCHANGED notMerge

(***************************************************************************)
(* SingleStageInstanceSegmentor.forward_train                              *)
(* (single_stage_instance_seg.py:86-118).  A loss dict is a function from  *)
(* its keys to its values.                                                 *)
(***************************************************************************)
SegLossKeys == {"loss_cls", "loss_bbox", "loss_mask"}
SegLossValues == {1, 2}
SegLossDicts ==
    UNION {[keys -> SegLossValues] : keys \in SUBSET SegLossKeys}
PositiveInfosChoices == {Tensor("infos_a"), Tensor("infos_b")}

\* dict.update
DictUpdate(d, e) ==
    [k \in DOMAIN d \cup DOMAIN e |-> IF k \in DOMAIN e THEN e[k] ELSE d[k]]

\* set(mask_loss.keys()) & set(losses.keys()) is not empty
LossOverride_Unchecked(mask_loss, det) == FALSE
LossOverride(mask_loss, det) == (DOMAIN mask_loss \cap DOMAIN det) # {}

SegIdle ==
    /\ seg_bbox_head = None
    /\ seg_mask_loss = << >>
    /\ positive_infos = None
    /\ seg_losses = << >>
    /\ mask_head_calls = <<>>
    /\ seg_ret = None
    /\ seg_pc = "idle"

\* forward_train is entered: x = self.extract_feat(img); losses = dict()
SegCalled ==
    /\ seg_bbox_head \in
         {None} \cup {Tensor([det_losses |-> d, positive_infos |-> p]) :
                         d \in SegLossDicts, p \in PositiveInfosChoices}
    /\ seg_mask_loss \in SegLossDicts
    /\ positive_infos = None
    /\ seg_losses = << >>
    /\ mask_head_calls = <<>>
    /\ seg_ret = None
    /\ seg_pc = "called"

segConfig == <<seg_bbox_head, seg_mask_loss>>

\* if self.bbox_head: det_losses, positive_infos = self.bbox_head.loss(...);
\* losses.update(det_losses)
SegBboxHeadLoss ==
    /\ seg_pc = "called"
    /\ ~IsNone(seg_bbox_head)
    /\ positive_infos' = Data(seg_bbox_head).positive_infos
    /\ seg_losses' = DictUpdate(seg_losses, Data(seg_bbox_head).det_losses)
    /\ seg_pc' = "det"
    /\ UNCHANGED <<segConfig, mask_head_calls, seg_ret>>
    /\ UNCHANGED notSeg

\* else: positive_infos = None
SegNoBboxHead ==
    /\ seg_pc = "called"
    /\ IsNone(seg_bbox_head)
    /\ positive_infos' = None
    /\ seg_pc' = "det"
    /\ UNCHANGED <<segConfig, seg_losses, mask_head_calls, seg_ret>>
    /\ UNCHANGED notSeg

\* mask_loss = self.mask_head.forward_train(..., positive_infos=...)
SegMaskHeadForwardTrain ==
    /\ seg_pc = "det"
    /\ mask_head_calls' = Append(mask_head_calls, positive_infos)
    /\ seg_pc' = "mask"
    /\ UNCHANGED <<segConfig, positive_infos, seg_losses, seg_ret>>
    /\ UNCHANGED notSeg

\* assert not set(mask_loss.keys()) & set(losses.keys()) fails
SegAssertionError ==
    /\ seg_pc = "mask"
    /\ LossOverride(seg_mask_loss, seg_losses)
    /\ seg_pc' = "AssertionError"
    /\ UNCHANGED <<segConfig, positive_infos, seg_losses, mask_head_calls,
                   seg_ret>>
    /\ UNCHANGED notSeg

\* losses.update(mask_loss); return losses
SegReturn ==
    /\ seg_pc = "mask"
    /\ ~LossOverride(seg_mask_loss, seg_losses)
    /\ seg_losses' = DictUpdate(seg_losses, seg_mask_loss)
    /\ seg_ret' = Tensor(seg_losses')
    /\ seg_pc' = "returned"
    /\ UNCHANGED <<segConfig, positive_infos, mask_head_calls>>
    /\ UNCHANGED notSeg

(***************************************************************************)
(* SemiMixUpDetector.project_pseudo_instances and filter_pseudo_instances  *)
(* (semi_mixup.py:117-130, 142-153).  A homography is kept as the axis     *)
(* scales and offsets of an affine map, x -> sx * x + tx, y -> sy * y + ty *)
(* (a flip is a scale of -1); img_shape is <<h, w>>.                       *)
(***************************************************************************)
HomographyChoices ==
    {[sx |-> 1, sy |-> 1, tx |-> 0, ty |-> 0],       \* the same view
     [sx |-> -1, sy |-> 1, tx |-> 8, ty |-> 0],      \* horizontal flip, width 8
     [sx |-> 1, sy |-> 1, tx |-> 5, ty |-> -3],      \* a shift
     [sx |-> 2, sy |-> 1, tx |-> 0, ty |-> 0]}       \* stretched along x
ImgShapeChoices == {<<8, 8>>, <<4, 6>>}
MinPseudoBboxWhChoices == {<<0, 0>>, <<1, 2>>}

Clamp(v, lo, hi) == Max2(lo, Min2(v, hi))

\* mmdet.core.bbox_project on one box: the corners mapped, the box around
\* them, clamped to the image
bbox_project1(box, M, img_shape) ==
    LET xa == M.sx * box[1] + M.tx
        xb == M.sx * box[3] + M.tx
        ya == M.sy * box[2] + M.ty
        yb == M.sy * box[4] + M.ty
    IN  <<Clamp(Min2(xa, xb), 0, img_shape[2]),
          Clamp(Min2(ya, yb), 0, img_shape[1]),
          Clamp(Max2(xa, xb), 0, img_shape[2]),
          Clamp(Max2(ya, yb), 0, img_shape[1])>>

\* mmdet.core.bbox_project
bbox_project(boxes, M, img_shape) ==
    [k \in 1..Len(boxes) |-> bbox_project1(boxes[k], M, img_shape)]

\* the gt_instances of the samples after the loop of
\* project_pseudo_instances (semi_mixup.py:144-152)
Projected(pseudo, samples) ==
    [k \in 1..Min2(Len(pseudo), Len(samples)) |->
        [bboxes |-> bbox_project(pseudo[k].bboxes,
                                 samples[k].homography_matrix,
                                 samples[k].img_shape),
         labels |-> pseudo[k].labels]]

\* valid_mask with boxes of the minimum size kept as well
ValidMask_NonStrict(boxes, min_wh) ==
    [k \in 1..Len(boxes) |->
        /\ boxes[k][3] - boxes[k][1] >= min_wh[1]
        /\ boxes[k][4] - boxes[k][2] >= min_wh[2]]

\* valid_mask (semi_mixup.py:123-126)
ValidMask(boxes, min_wh) ==
    [k \in 1..Len(boxes) |->
        /\ boxes[k][3] - boxes[k][1] > min_wh[1]
        /\ boxes[k][4] - boxes[k][2] > min_wh[2]]

\* filter_pseudo_instances on the gt_instances of one sample
\* (semi_mixup.py:119-129)
FilterInstances(inst, min_wh) ==
    IF Len(inst.bboxes) = 0 THEN inst
    ELSE [bboxes |-> BoolIndex(inst.bboxes, ValidMask(inst.bboxes, min_wh)),
          labels |-> BoolIndex(inst.labels, ValidMask(inst.bboxes, min_wh))]

\* filter_pseudo_instances (semi_mixup.py:117-130)
FilterPseudoInstances(batch, min_wh) ==
    [k \in 1..Len(batch) |-> FilterInstances(batch[k], min_wh)]

\* what update_pseudo_instances may have left in a teacher sample
PseudoInstancesChoices ==
    {[bboxes |-> SubSeq(PseudoBoxPool, 1, n),
      labels |-> SubSeq(PseudoLabelPool, 1, n)] : n \in 0..MaxPreds}

ProjectIdle ==
    /\ min_pseudo_bbox_wh = <<0, 0>>
    /\ batch_pseudo_instances = <<>>
    /\ pj_data_samples = <<>>
    /\ pj_projected = <<>>
    /\ pj_ret = <<>>
    /\ pj_pc = "idle"

\* project_pseudo_instances is called as loss calls it: one teacher sample
\* per student sample (semi_mixup.py:42-45)
ProjectCalled ==
    /\ min_pseudo_bbox_wh \in MinPseudoBboxWhChoices
    /\ \E n \in BatchSizeChoices :
         /\ batch_pseudo_instances \in [1..n -> PseudoInstancesChoices]
         /\ pj_data_samples \in
              [1..n -> [homography_matrix : HomographyChoices,
                        img_shape : ImgShapeChoices]]
    /\ pj_projected = <<>>
    /\ pj_ret = <<>>
    /\ pj_pc = "called"

\* project_pseudo_instances(batch_pseudo_instances, batch_data_samples),
\* with its call of filter_pseudo_instances (semi_mixup.py:142-153)
ProjectPseudoInstances ==
    /\ pj_pc = "called"
    /\ pj_projected' = Projected(batch_pseudo_instances, pj_data_samples)
    /\ pj_ret' = FilterPseudoInstances(
                    Projected(batch_pseudo_instances, pj_data_samples),
                    min_pseudo_bbox_wh)
    /\ pj_pc' = "returned"
    /\ UNCHANGED <<min_pseudo_bbox_wh, batch_pseudo_instances, pj_data_samples>>
    /\ UNCHANGED notProject

(***************************************************************************)
(* SemiMixUpDetector.loss: the loss dictionary (semi_mixup.py:35-56,       *)
(* 84-115).                                                                *)
(***************************************************************************)
\* 'sup_' and 'unsup_', as strings of characters
SupPrefix == <<"s", "u", "p", "_">>
UnsupPrefix == <<"u", "n">> \o SupPrefix

\* a loss value: a tensor (one item) or a sequence of tensors
LossTensor(v) == [is_sequence |-> FALSE, items |-> <<v>>]
LossList(vs) == [is_sequence |-> TRUE, items |-> vs]

\* what student.loss may return: any of a classification loss, a list of
\* per-level box losses and an accuracy, with values that tell the two
\* calls apart
StudentLossChoices(base) ==
    LET full == (LossCls :> LossTensor(base + 3))
                    @@ (LossBbox :> LossList(<<base + 5, base + 7>>))
                    @@ (Acc :> LossTensor(base + 9))
    IN  {[name \in names |-> full[name]] : names \in SUBSET DOMAIN full}

WeightChoices(w) == {None, Tensor(w)}

\* self.semi_train_cfg.get(key, 1.)
GetWeight(w) == IF IsNone(w) THEN 1 ELSE Data(w)

\* weight(losses, weight) (semi_mixup.py:107-115)
Weight(student_loss, w) ==
    [name \in DOMAIN student_loss |->
        IF Contains(LossStr, name)
        THEN IF student_loss[name].is_sequence
             THEN LossList([i \in 1..Len(student_loss[name].items) |->
                               student_loss[name].items[i] * w])
             ELSE LossTensor(student_loss[name].items[1] * w)
        ELSE student_loss[name]]

\* the dict comprehension without the prefix
Prefixed_NoPrefix(prefix, d) == d

\* {prefix + k: v for k, v in d.items()} (semi_mixup.py:85-90, 99-104)
Prefixed(prefix, d) ==
    [key \in {prefix \o k : k \in DOMAIN d} |->
        d[SubSeq(key, Len(prefix) + 1, Len(key))]]

\* unsup_weight of pseudo_loss (semi_mixup.py:93-98)
PseudoWeight ==
    IF SeqSum(pseudo_instances_len) > 0 THEN GetWeight(unsup_weight) ELSE 0

LossIdle ==
    /\ sup_weight = None
    /\ unsup_weight = None
    /\ sup_student_loss = <<>>
    /\ unsup_student_loss = <<>>
    /\ pseudo_instances_len = <<>>
    /\ ls_losses = << >>
    /\ ls_calls = <<>>
    /\ ls_pc = "idle"

\* loss is called on a built detector (semi_mixup.py:35-36);
\* pseudo_instances_len is what update_pseudo_instances,
\* project_pseudo_instances and mixup leave in the unsup_student samples
LossCalled ==
    /\ sup_weight \in WeightChoices(2)
    /\ unsup_weight \in WeightChoices(4)
    /\ sup_student_loss \in StudentLossChoices(0)
    /\ unsup_student_loss \in StudentLossChoices(20)
    /\ pseudo_instances_len \in [1..batch_size -> 0..1]
    /\ ls_losses = << >>
    /\ ls_calls = <<>>
    /\ ls_pc = "called"

lossArgs == <<sup_weight, unsup_weight, sup_student_loss, unsup_student_loss,
              pseudo_instances_len>>

\* losses.update(**self.gt_loss(...)) (semi_mixup.py:37-38, 84-90)
LossGtLoss ==
    /\ ls_pc = "called"
    /\ ls_calls' = Append(ls_calls, <<student, "loss">>)
    /\ ls_losses' = DictUpdate(ls_losses,
          Prefixed(SupPrefix, Weight(sup_student_loss, GetWeight(sup_weight))))
    /\ ls_pc' = "sup"
    /\ UNCHANGED lossArgs
    /\ UNCHANGED notLoss

\* losses.update(**self.pseudo_loss(...)) (semi_mixup.py:53-55, 92-105)
LossPseudoLoss ==
    /\ ls_pc = "sup"
    /\ ls_calls' = Append(ls_calls, <<student, "loss">>)
    /\ ls_losses' = DictUpdate(ls_losses,
          Prefixed(UnsupPrefix, Weight(unsup_student_loss, PseudoWeight)))
    /\ ls_pc' = "unsup"
    /\ UNCHANGED lossArgs
    /\ UNCHANGED notLoss

\* return losses (semi_mixup.py:56)
LossReturn ==
    /\ ls_pc = "unsup"
    /\ ls_pc' = "returned"
    /\ UNCHANGED <<lossArgs, ls_losses, ls_calls>>
    /\ UNCHANGED notLoss

(***************************************************************************)
(* Specifications: one per component, the other components idle.          *)
(***************************************************************************)
MoreIdle == ProjectIdle /\ LossIdle
OthersIdle == MergeIdle /\ SegIdle /\ MoreIdle

InitATSS ==
    AtssCalled /\ CascadeIdle /\ HookIdle /\ SemiIdle /\ TranslateIdle
        /\ OthersIdle
NextATSS == AssignRaiseValueError \/ AssignRaiseTopk \/ AssignReturn
SpecATSS == InitATSS /\ [][NextATSS]_vars

\* assign called twice, for the calls that return, on as many gts as the
\* pool has
InitAssignTwice ==
    /\ InitATSS
    /\ ~NoGtOrBboxes(num_bboxes, num_gt)
    /\ \A l \in 1..Len(num_level_bboxes) : num_level_bboxes[l] >= topk
    /\ num_gt = Len(GtPool)
NextAssignTwice == AssignReturn \/ AssignAgain
SpecAssignTwice == InitAssignTwice /\ [][NextAssignTwice]_vars

InitCascade ==
    AtssIdle /\ CascadeCalled /\ HookIdle /\ SemiIdle /\ TranslateIdle
        /\ OthersIdle
NextCascade ==
    \/ StageBegin
    \/ AssignStep
    \/ SampleStep
    \/ RoisEmpty
    \/ RoisReady
    \/ ExtractStep
    \/ BboxHeadStep
    \/ MaskOwnExtractor
    \/ MaskSharedExtractor
    \/ RefineStep
    \/ ForwardTrainReturn
SpecCascade == InitCascade /\ [][NextCascade]_vars

InitHook ==
    AtssIdle /\ CascadeIdle /\ HookBuilt /\ SemiIdle /\ TranslateIdle
        /\ OthersIdle
NextHook == BeforeTrainEpochSwitch \/ BeforeTrainEpochNoSwitch \/ TrainEpoch
SpecHook == InitHook /\ [][NextHook]_vars

InitSemi ==
    AtssIdle /\ CascadeIdle /\ HookIdle /\ SemiUnbuilt /\ TranslateIdle
        /\ OthersIdle
NextSemi == SemiInit \/ UpdatePseudoInstances \/ SemiLoss \/ SemiPredict
SpecSemi == InitSemi /\ [][NextSemi]_vars

InitUpdatePseudo ==
    AtssIdle /\ CascadeIdle /\ HookIdle /\ SemiBuilt /\ TranslateIdle
        /\ OthersIdle
NextUpdatePseudo == UpdatePseudoInstances
SpecUpdatePseudo == InitUpdatePseudo /\ [][NextUpdatePseudo]_vars

InitTranslate ==
    AtssIdle /\ CascadeIdle /\ HookIdle /\ SemiIdle /\ TranslateNew
        /\ OthersIdle
NextTranslate ==
    \/ TranslateInitAssertionError
    \/ TranslateInit
    \/ TranslateSkip
    \/ TranslateNotImplemented
    \/ TranslateApply
SpecTranslate == InitTranslate /\ [][NextTranslate]_vars

InitMergeAug ==
    AtssIdle /\ CascadeIdle /\ HookIdle /\ SemiIdle /\ TranslateIdle
        /\ MergeCalled /\ SegIdle /\ MoreIdle
NextMergeAug ==
    \/ MergeAugBboxes
    \/ MergeAugBboxesNoScores
    \/ MergeAugBboxesRuntimeError
SpecMergeAug == InitMergeAug /\ [][NextMergeAug]_vars

InitSeg ==
    AtssIdle /\ CascadeIdle /\ HookIdle /\ SemiIdle /\ TranslateIdle
        /\ MergeIdle /\ SegCalled /\ MoreIdle
NextSeg ==
    \/ SegBboxHeadLoss
    \/ SegNoBboxHead
    \/ SegMaskHeadForwardTrain
    \/ SegAssertionError
    \/ SegReturn
SpecSeg == InitSeg /\ [][NextSeg]_vars

InitProject ==
    AtssIdle /\ CascadeIdle /\ HookIdle /\ SemiIdle /\ TranslateIdle
        /\ MergeIdle /\ SegIdle /\ ProjectCalled /\ LossIdle
NextProject == ProjectPseudoInstances
SpecProject == InitProject /\ [][NextProject]_vars

InitLossDict ==
    AtssIdle /\ CascadeIdle /\ HookIdle /\ SemiBuilt /\ TranslateIdle
        /\ MergeIdle /\ SegIdle /\ ProjectIdle /\ LossCalled
NextLossDict == LossGtLoss \/ LossPseudoLoss \/ LossReturn
SpecLossDict == InitLossDict /\ [][NextLossDict]_vars

Init ==
    \/ InitATSS
    \/ InitCascade
    \/ InitHook
    \/ InitSemi
    \/ InitUpdatePseudo
    \/ InitTranslate
    \/ InitMergeAug
    \/ InitSeg
    \/ InitProject
    \/ InitLossDict
Next ==
    \/ NextATSS
    \/ AssignAgain
    \/ NextCascade
    \/ NextHook
    \/ NextSemi
    \/ NextTranslate
    \/ NextMergeAug
    \/ NextSeg
    \/ NextProject
    \/ NextLossDict
Spec == Init /\ [][Next]_vars

(***************************************************************************)
(* Properties of ATSSAssigner.assign.                                      *)
(***************************************************************************)
Returned == atss_pc = "returned"
NumLevels == Len(num_level_bboxes)
\* rows of candidate_idxs that come from level l
LevelRows(l) == ((l - 1) * topk + 1)..(l * topk)
\* box indices of level l
LevelBoxes(l) ==
    (StartIdx(num_level_bboxes, l) + 1)
        ..(StartIdx(num_level_bboxes, l) + num_level_bboxes[l])

\* C1: when assign returns (at least one bbox and one gt), assigned_gt_inds
\* has one entry per bbox and every entry is 0 or a gt index in 1..num_gt.
C1_GtIndsInRange ==
    Returned =>
        /\ num_bboxes >= 1 /\ num_gt >= 1
        /\ Len(assigned_gt_inds) = num_bboxes
        /\ \A i \in 1..num_bboxes : assigned_gt_inds[i] \in 0..num_gt

\* a call that returns background for one bbox, the second gt for another
C1_Witness ==
    /\ Returned
    /\ \E i, j \in 1..num_bboxes :
         assigned_gt_inds[i] = 0 /\ assigned_gt_inds[j] = 2

\* C2: for every gt, each level contributes exactly topk distinct bboxes of
\* that level (indices inside the level's own range), none of them farther
\* from the gt center than a bbox of the level left out; the gt has
\* topk * (number of levels) candidates.
C2_TopkPerLevel ==
    Returned =>
        /\ Len(candidate_idxs) = num_gt
        /\ \A g \in 1..num_gt :
             /\ Len(candidate_idxs[g]) = topk * NumLevels
             /\ \A l \in 1..NumLevels :
                  LET sel == {candidate_idxs[g][p] : p \in LevelRows(l)}
                  IN  /\ sel \subseteq LevelBoxes(l)
                      /\ Cardinality(sel) = topk
                      /\ \A i \in sel : \A j \in LevelBoxes(l) \ sel :
                            Distances(i, g) <= Distances(j, g)

\* two levels, the second with more boxes than topk, so a selection is made
C2_Witness ==
    /\ Returned
    /\ NumLevels = 2 /\ num_gt = 2
    /\ num_level_bboxes[2] > topk
    /\ \E g \in 1..num_gt :
         \E j \in LevelBoxes(2) : j \notin SeqRange(candidate_idxs[g])

\* the candidates' IoUs with gt g, times their common denominator
C3_Scaled(g) ==
    LET col == candidate_idxs[g]
        D   == SeqLCM([p \in 1..Len(col) |->
                          bbox_overlaps(bboxes[col[p]], gt_bboxes[g])[2]])
    IN  [p \in 1..Len(col) |->
            LET v == bbox_overlaps(bboxes[col[p]], gt_bboxes[g])
            IN  v[1] * (D \div v[2])]

\* candidate row p of gt g has IoU >= mean + std of the gt's candidates:
\* x_p - mean >= 0 and (x_p - mean)^2 >= sum_q (x_q - mean)^2 / (N - 1)
C3_AtLeastThr(g, p) ==
    LET X    == C3_Scaled(g)
        N    == Len(X)
        S    == SeqSum(X)
        d(q) == N * X[q] - S
    IN  /\ N >= 2
        /\ d(p) >= 0
        /\ (N - 1) * d(p) * d(p) >= SeqSum([q \in 1..N |-> d(q) * d(q)])

\* C3: a bbox assigned to gt g is one of g's candidates and its IoU with g
\* is at least the mean plus the standard deviation of the IoUs between g
\* and g's own candidates.
C3_PositiveAtLeastThr ==
    Returned =>
        \A i \in 1..num_bboxes :
            assigned_gt_inds[i] > 0 =>
                LET g == assigned_gt_inds[i]
                IN  \E p \in 1..Len(candidate_idxs[g]) :
                        candidate_idxs[g][p] = i /\ C3_AtLeastThr(g, p)

\* a positive bbox whose gt also has a candidate at or above the mean of the
\* candidates' IoUs, yet below the threshold and left background
C3_Witness ==
    /\ Returned
    /\ \E i \in 1..num_bboxes :
         /\ assigned_gt_inds[i] > 0
         /\ LET g == assigned_gt_inds[i]
                X == C3_Scaled(g)
            IN  \E q \in 1..Len(X) :
                   /\ ~C3_AtLeastThr(g, q)
                   /\ Len(X) * X[q] - SeqSum(X) >= 0
                   /\ assigned_gt_inds[candidate_idxs[g][q]] = 0

\* doubled distances from the center of bbox i to the sides of gt g
C4_Sides2(i, g) ==
    {(bboxes[i][1] + bboxes[i][3]) - 2 * gt_bboxes[g][1],
     (bboxes[i][2] + bboxes[i][4]) - 2 * gt_bboxes[g][2],
     2 * gt_bboxes[g][3] - (bboxes[i][1] + bboxes[i][3]),
     2 * gt_bboxes[g][4] - (bboxes[i][2] + bboxes[i][4])}

\* C4: a bbox assigned to gt g has its center inside g: the distances from
\* the center to the four sides of g are positive.
C4_PositiveCenterInGt ==
    Returned =>
        \A i \in 1..num_bboxes :
            assigned_gt_inds[i] > 0 =>
                \A d \in C4_Sides2(i, assigned_gt_inds[i]) : d > 0

\* a bbox assigned to a gt, while another candidate of the same gt has its
\* center on or outside a side of the gt and is left background
C4_Witness ==
    /\ Returned
    /\ \E i \in 1..num_bboxes :
         /\ assigned_gt_inds[i] > 0
         /\ LET g == assigned_gt_inds[i]
            IN  \E p \in 1..Len(candidate_idxs[g]) :
                   /\ \E d \in C4_Sides2(candidate_idxs[g][p], g) : d <= 0
                   /\ assigned_gt_inds[candidate_idxs[g][p]] = 0

(***************************************************************************)
(* Properties of CascadeRoIHead.forward_train.                             *)
(***************************************************************************)
\* the stages begun so far, as indexes of the histories
StagesBegun == 1..Len(stage_inputs)

\* stage s (from 1) got rois
ProducedRois(s) == s <= Len(num_rois) /\ num_rois[s] > 0

\* every proposal list handed to the assigner and the sampler in stage s
C5_StageInputsAre(s, lists) ==
    /\ \A j \in 1..Len(stage_inputs[s].assign) :
          stage_inputs[s].assign[j] = lists[j]
    /\ \A j \in 1..Len(stage_inputs[s].sample) :
          stage_inputs[s].sample[j] = lists[j]

\* C5: stage 0 assigns and samples on the caller's proposal_list, and for
\* every stage i < num_stages-1 that produced rois, the proposal list given to
\* the assigner and the sampler of stage i+1 is the result of stage i's
\* bbox_head.refine_bboxes.
C5_RefinedProposalsFeedNextStage ==
    \A s \in StagesBegun :
        /\ s = 1 => C5_StageInputsAre(s, ft_proposals)
        /\ (s > 1 /\ ProducedRois(s - 1)) =>
              /\ ~IsNone(refine_ret[s - 1])
              /\ C5_StageInputsAre(s, Data(refine_ret[s - 1]))

\* the second stage has assigned and sampled, for every image, on the boxes
\* the first stage refined
C5_Witness ==
    /\ Len(stage_inputs) >= 2
    /\ ProducedRois(1)
    /\ Len(stage_inputs[2].sample) = num_imgs
    /\ ~IsNone(refine_ret[1])
    /\ \E j \in 1..num_imgs : Data(refine_ret[1])[j] # <<>>

\* the steps of the log, the mask head's left out
C6_Log ==
    LET NotMask(e) == e[1] # "mask" IN SelectSeq(ft_log, NotMask)

\* assign, sample of image 1, ..., assign, sample of image n, in stage i
RECURSIVE C6_AssignSample(_, _)
C6_AssignSample(i, n) ==
    IF n = 0 THEN <<>>
    ELSE C6_AssignSample(i, n - 1) \o << <<"assign", i, n>>, <<"sample", i, n>> >>

\* the steps after sampling of a stage that goes through
C6_HeadSteps(i) ==
    << <<"extract", i, 0>>, <<"predict", i, 0>> >>
        \o (IF i < num_stages - 1 THEN << <<"refine", i, 0>> >> ELSE <<>>)

\* the steps of stage i when it is done, as the code orders them
C6_StageSteps(i) ==
    C6_AssignSample(i, num_imgs)
        \o (IF ProducedRois(i + 1) THEN C6_HeadSteps(i) ELSE <<>>)

\* the steps of the stages 0..i-1, all done
RECURSIVE C6_StagesSteps(_)
C6_StagesSteps(i) ==
    IF i = 0 THEN <<>> ELSE C6_StagesSteps(i - 1) \o C6_StageSteps(i - 1)

\* the steps of the stages 0..i-1, had every one of them gone through
RECURSIVE C6_AllStagesInFull(_)
C6_AllStagesInFull(i) ==
    IF i = 0 THEN <<>>
    ELSE C6_AllStagesInFull(i - 1)
            \o C6_AssignSample(i - 1, num_imgs) \o C6_HeadSteps(i - 1)

IsPrefix(s, t) == Len(s) <= Len(t) /\ s = SubSeq(t, 1, Len(s))

\* the current stage is over
C6_StageDone == ft_pc \in {"loop", "returned"}

\* C6 (amended): the stages 0..num_stages-1 run in increasing order, each
\* exactly once; inside a stage the steps are assign then sample for each
\* image in turn, and then, if the stage got rois, RoI feature extraction,
\* bbox prediction (and loss) and, in every stage but the last, refine; a
\* stage without rois ends after sampling.
C6_StageOrder ==
    /\ current_stage < num_stages
    /\ IF C6_StageDone
       THEN C6_Log = C6_StagesSteps(current_stage + 1)
       ELSE /\ IsPrefix(C6_StagesSteps(current_stage), C6_Log)
            /\ IsPrefix(C6_Log,
                  C6_StagesSteps(current_stage)
                      \o C6_AssignSample(current_stage, num_imgs)
                      \o C6_HeadSteps(current_stage))
    /\ ft_pc = "returned" => current_stage = num_stages - 1

\* forward_train has returned after two images and two stages or more, one
\* of them without rois and another with
C6_Witness ==
    /\ ft_pc = "returned"
    /\ num_imgs >= 2
    /\ num_stages >= 2
    /\ \E s \in 1..num_stages : ~ProducedRois(s)
    /\ \E s \in 1..(num_stages - 1) : ProducedRois(s)

\* C6 as stated: every stage runs assign, sample, extraction, prediction, and
\* refine after every stage except the last one.
C6_RefineAfterEveryStageButLast ==
    ft_pc = "returned" => C6_Log = C6_AllStagesInFull(num_stages)

\* the value the code must have stored for a write of the history
C7_Expected(w) ==
    IF Contains(LossStr, w.name)
    THEN RatMul(w.head_value, stage_loss_weights[w.stage + 1])
    ELSE w.head_value

\* key is 's{i}.{name}' for a stage i of the call
C7_KeyOfAStage(key) ==
    \E i \in 0..(num_stages - 1) :
        LET prefix == <<"s">> \o Str(i) \o <<".">>
        IN  /\ Len(key) > Len(prefix)
            /\ SubSeq(key, 1, Len(prefix)) = prefix

\* C7: the loss dictionary only has keys 's{i}.{name}' with
\* 0 <= i < num_stages; the value under 's{i}.{name}' is the head's value times
\* stage_loss_weights[i] when name contains 'loss' and the head's value
\* otherwise; no stage overwrites an entry of another stage.
C7_LossDict ==
    /\ \A e \in losses : C7_KeyOfAStage(e[1])
    /\ losses = {<<loss_writes[k].key, C7_Expected(loss_writes[k])>> :
                     k \in 1..Len(loss_writes)}
    /\ \A k, l \in 1..Len(loss_writes) :
          loss_writes[k].key = loss_writes[l].key =>
              loss_writes[k].stage = loss_writes[l].stage

\* forward_train has returned with a weighted loss and an unweighted
\* accuracy of a stage whose weight is not 1
C7_Witness ==
    /\ ft_pc = "returned"
    /\ \E i \in 0..(num_stages - 1) :
          /\ stage_loss_weights[i + 1] # <<1, 1>>
          /\ <<FormatKey(i, Acc), BboxHeadLoss(i)[2][2]>> \in losses
          /\ \E e \in losses :
                e[1] = FormatKey(i, LossCls) /\ e[2] # BboxHeadLoss(i)[1][2]

(***************************************************************************)
(* Properties of YOLOXModeSwitchHook.before_train_epoch.                   *)
(***************************************************************************)
\* the epoch with epoch + 1 = max_epochs - num_last_epochs
SwitchEpoch == max_epochs - num_last_epochs - 1

\* before_train_epoch has just been called, at epoch e
HookJustCalledAt(e) ==
    /\ hook_pc = "train_epoch"
    /\ hook_calls # <<>>
    /\ hook_calls[Len(hook_calls)] = e

\* before_train_epoch has been called at epoch e
HookCalledAt(e) == \E k \in 1..Len(hook_calls) : hook_calls[k] = e

\* C8: with a wrapped model and persistent workers, before_train_epoch at
\* the epoch where epoch + 1 = max_epochs - num_last_epochs sets use_l1 on the
\* wrapped module, sets _restart_dataloader and marks the dataloader as not
\* initialized; before_train_epoch at the following epoch marks it
\* initialized again.
C8_SwitchThenRestart ==
    (is_model_wrapper /\ persistent_workers) =>
        /\ HookJustCalledAt(SwitchEpoch) =>
              /\ use_l1.module
              /\ restart_dataloader
              /\ ~DataLoader__initialized
        /\ (HookJustCalledAt(SwitchEpoch + 1) /\ HookCalledAt(SwitchEpoch)) =>
              DataLoader__initialized

\* the hook of a wrapped model with persistent workers has been called at
\* the switch epoch and at the one after it
C8_Witness ==
    /\ is_model_wrapper
    /\ persistent_workers
    /\ HookCalledAt(SwitchEpoch)
    /\ HookJustCalledAt(SwitchEpoch + 1)
    /\ use_l1.module
    /\ restart_dataloader

\* C9: with an unwrapped model and no persistent workers, use_l1 is True once
\* before_train_epoch was called at the switch epoch, and _restart_dataloader
\* stays False and the dataloader stays initialized, at the switch epoch and
\* at every later one.
C9_SwitchWithoutRestart ==
    (~is_model_wrapper /\ ~persistent_workers) =>
        /\ HookCalledAt(SwitchEpoch) => use_l1.model
        /\ ~restart_dataloader
        /\ DataLoader__initialized

\* the hook of an unwrapped model without persistent workers has been
\* called at the switch epoch and two epochs later
C9_Witness ==
    /\ ~is_model_wrapper
    /\ ~persistent_workers
    /\ HookCalledAt(SwitchEpoch)
    /\ HookJustCalledAt(SwitchEpoch + 2)
    /\ use_l1.model

(***************************************************************************)
(* Properties of SemiMixUpDetector.                                        *)
(***************************************************************************)
\* the methods called so far
SemiCalled == {semi_log[k].call : k \in 1..Len(semi_log)}

\* C10: teacher and student are two separately built instances of the same
\* detector config, the teacher with every component of it; the teacher is
\* frozen at construction (eval mode, requires_grad False on every
\* parameter) and the student's parameters are as built; loss, predict and
\* update_pseudo_instances leave the teacher's requires_grad flags alone.
C10_TeacherFrozen ==
    semi_pc = "built" =>
        /\ teacher \in 1..Len(modules)
        /\ student \in 1..Len(modules)
        /\ teacher # student
        /\ modules[teacher].components = detector.components
        /\ modules[student].components = detector.components
        /\ DOMAIN modules[teacher].requires_grad = detector.components
        /\ \A p \in detector.components : ~modules[teacher].requires_grad[p]
        /\ semi_log = <<>> => ~modules[teacher].training
        /\ modules[student].training
        /\ modules[student].requires_grad =
              [p \in detector.components |-> p \notin detector.frozen]

\* a detector of four components, nothing frozen by its config, after a
\* loss, a predict and an update_pseudo_instances: the student's parameters
\* still require grad
C10_Witness ==
    /\ semi_pc = "built"
    /\ SemiCalled = {"loss", "predict", "update_pseudo_instances"}
    /\ detector.frozen = {}
    /\ Cardinality(detector.components) = 4
    /\ \A p \in detector.components : modules[student].requires_grad[p]

\* the indexes of the predictions with a score above the threshold
C11_Kept(results) ==
    {k \in 1..Len(results.scores) : results.scores[k] > semi_train_cfg.score_thr}

\* the i-th of them, in the teacher's order
C11_KeptAt(results, i) ==
    CHOOSE k \in C11_Kept(results) :
        Cardinality({l \in C11_Kept(results) : l <= k}) = i

\* C11: after update_pseudo_instances the gt_instances of every sample are
\* exactly the teacher's predictions for it with a score strictly above
\* score_thr, in the teacher's order, bboxes and labels of equal length;
\* what the sample had before is gone.
C11_PseudoInstancesArePredictions ==
    (semi_pc = "built" /\ semi_log # <<>>) =>
        /\ Len(unsup_teacher_instances) = batch_size
        /\ Len(results_list) = batch_size
        /\ \A s \in 1..batch_size :
              LET gt   == unsup_teacher_instances[s]
                  pred == results_list[s]
              IN  /\ Len(gt.bboxes) = Cardinality(C11_Kept(pred))
                  /\ Len(gt.labels) = Len(gt.bboxes)
                  /\ \A i \in 1..Len(gt.bboxes) :
                        /\ gt.bboxes[i] = pred.bboxes[C11_KeptAt(pred, i)]
                        /\ gt.labels[i] = pred.labels[C11_KeptAt(pred, i)]

\* a batch of two samples that came with gt_instances: of the first the
\* prediction at the threshold is dropped and a later one kept, of the
\* second nothing is kept
C11_Witness ==
    /\ semi_pc = "built"
    /\ semi_log # <<>>
    /\ batch_size = 2
    /\ pseudo_before[1] = OldInstances
    /\ Len(results_list[1].scores) >= 2
    /\ results_list[1].scores[1] = semi_train_cfg.score_thr
    /\ unsup_teacher_instances[1].bboxes = <<results_list[1].bboxes[2]>>
    /\ results_list[2].scores # <<>>
    /\ unsup_teacher_instances[2] = NoInstances

(***************************************************************************)
(* Properties of Translate.                                                *)
(***************************************************************************)
\* the bbox fields of the call
TrBboxFields == {tr_results_in["bbox_fields"][i] :
                    i \in 1..Len(tr_results_in["bbox_fields"])}

\* box k of field key after the shift and the clipping, written out
TrShifted(key, k) ==
    LET b == tr_results_in[key][k]
        h == tr_results_in["img_shape"][1]
        w == tr_results_in["img_shape"][2]
    IN  IF axis = "x"
        THEN <<Max2(0, b[1] + tr_offset), b[2], Min2(w, b[3] + tr_offset), b[4]>>
        ELSE <<b[1], Max2(0, b[2] + tr_offset), b[3], Min2(h, b[4] + tr_offset)>>

\* the indexes of the boxes of field key that stay
TrKept(key) ==
    {k \in 1..Len(tr_results_in[key]) :
        /\ TrShifted(key, k)[3] - TrShifted(key, k)[1] > min_size
        /\ TrShifted(key, k)[4] - TrShifted(key, k)[2] > min_size}

\* the i-th of them
TrKeptAt(key, i) ==
    CHOOSE k \in TrKept(key) : Cardinality({l \in TrKept(key) : l <= k}) = i

\* C12: after an applied Translate call every box of every bbox field is
\* wider and higher than min_size, and the label field and the mask field of
\* the bbox field keep exactly the entries at the kept indices.
C12_FilteredAligned ==
    tr_pc = "returned" =>
        \A key \in TrBboxFields :
            LET boxes == tr_results[key]
                n     == Cardinality(TrKept(key))
            IN  /\ Len(boxes) = n
                /\ \A i \in 1..n :
                      /\ boxes[i][3] - boxes[i][1] > min_size
                      /\ boxes[i][4] - boxes[i][2] > min_size
                      /\ boxes[i] = TrShifted(key, TrKeptAt(key, i))
                /\ bbox2label[key] \in DOMAIN tr_results =>
                      /\ Len(tr_results[bbox2label[key]]) = n
                      /\ \A i \in 1..n :
                            tr_results[bbox2label[key]][i] =
                                tr_results_in[bbox2label[key]][TrKeptAt(key, i)]
                /\ bbox2mask[key] \in DOMAIN tr_results =>
                      /\ Len(tr_results[bbox2mask[key]].masks) = n
                      /\ \A i \in 1..n :
                            tr_results[bbox2mask[key]].masks[i][2] =
                                tr_results_in[bbox2mask[key]].masks[TrKeptAt(key, i)]

\* a call that moved the first of two labelled and masked boxes out of the
\* image and kept the second
C12_Witness ==
    /\ tr_pc = "returned"
    /\ Len(tr_results_in["gt_bboxes"]) = 2
    /\ "gt_labels" \in DOMAIN tr_results
    /\ "gt_masks" \in DOMAIN tr_results
    /\ TrKept("gt_bboxes") = {2}
    /\ TrShifted("gt_bboxes", 1)[3] - TrShifted("gt_bboxes", 1)[1] < 0
    /\ tr_results["gt_labels"] = <<tr_results_in["gt_labels"][2]>>
    /\ Len(tr_results["gt_masks"].masks) = 1

\* C13 as stated: a level outside (0, _MAX_LEVEL] fails the constructor's
\* assertion.
C13_LevelOutsideRangeFails ==
    (tr_pc \notin {"idle", "new"} /\ ~(0 < level /\ level <= MAX_LEVEL)) =>
        tr_pc = "AssertionError"

\* C14: a Translate call returns results unchanged, or shifts along the
\* configured axis only, by +offset or -offset with
\* offset = int(level / _MAX_LEVEL * max_translate_offset); the boxes keep
\* their coordinates on the other axis and those on the translated axis are
\* clipped to [0, w] (axis x) or [0, h] (axis y).
C14_ShiftAlongAxisOnly ==
    /\ tr_pc = "skipped" => tr_results = tr_results_in
    /\ tr_pc = "returned" =>
          /\ offset * 10 <= level * max_translate_offset
          /\ level * max_translate_offset < (offset + 1) * 10
          /\ tr_offset \in {offset, -offset}
          /\ tr_results["img"] = <<"warped", tr_results_in["img"], axis, tr_offset>>
          /\ \A key \in TrBboxFields :
                \A i \in 1..Len(tr_results[key]) :
                    LET new == tr_results[key][i]
                        old == tr_results_in[key][TrKeptAt(key, i)]
                        lim == tr_results_in["img_shape"][IF axis = "x" THEN 2 ELSE 1]
                        a   == IF axis = "x" THEN 1 ELSE 2
                        o   == IF axis = "x" THEN 2 ELSE 1
                    IN  /\ new[o] = old[o]
                        /\ new[o + 2] = old[o + 2]
                        /\ new[a] = Max2(0, old[a] + tr_offset)
                        /\ new[a + 2] = Min2(lim, old[a + 2] + tr_offset)
                        /\ 0 <= new[a] /\ new[a] <= lim
                        /\ 0 <= new[a + 2] /\ new[a + 2] <= lim

\* an applied call along y by a negative offset that is a truncated
\* quotient, a box clipped at 0 and still there
C14_Witness ==
    /\ tr_pc = "returned"
    /\ axis = "y"
    /\ tr_offset < 0
    /\ offset * 10 < level * max_translate_offset
    /\ \E i \in 1..Len(tr_results["gt_bboxes"]) :
          LET old == tr_results_in["gt_bboxes"][TrKeptAt("gt_bboxes", i)]
          IN  /\ old[2] + tr_offset < 0
              /\ tr_results["gt_bboxes"][i][2] = 0
              /\ tr_results["gt_bboxes"][i][1] = old[1]

(***************************************************************************)
(* Properties of TestAugModelWrapper.merge_aug_bboxes.                     *)
(***************************************************************************)
MergeReturned == merge_pc = "returned"
\* the number of rows the augmentations before a contribute
C15_Start(a) == SeqSum([b \in 1..(a - 1) |-> Len(aug_bboxes[b])])
\* the sum of the box counts of all augmentations
C15_Total == C15_Start(Len(aug_bboxes) + 1)
\* box k of augmentation a as it has to appear in the result
C15_Expected(a, k) ==
    LET info == img_metas[a][1]
    IN  IF info.flip
        THEN bbox_flip1(aug_bboxes[a][k], info.ori_shape, info.flip_direction)
        ELSE aug_bboxes[a][k]

\* C15: merge_aug_bboxes returns n rows of bboxes (and n scores when scores
\* are given), n the sum of the augmentations' box counts, in augmentation
\* order; box k of augmentation a is flipped back with ori_shape and
\* flip_direction exactly when the augmentation's flip is true, and row r of
\* bboxes and entry r of scores belong to the same detection.
C15_MergedAligned ==
    MergeReturned =>
        /\ Len(merged.bboxes) = C15_Total
        /\ \A a \in 1..Len(aug_bboxes) : \A k \in 1..Len(aug_bboxes[a]) :
              merged.bboxes[C15_Start(a) + k] = C15_Expected(a, k)
        /\ ~IsNone(aug_scores) =>
              /\ Len(merged.scores) = C15_Total
              /\ \A a \in 1..Len(aug_bboxes) : \A k \in 1..Len(aug_bboxes[a]) :
                    merged.scores[C15_Start(a) + k] = Data(aug_scores)[a][k]

\* two augmentations with boxes, the first as it is and the second flipped,
\* merged together with their scores
C15_Witness ==
    /\ MergeReturned
    /\ ~IsNone(aug_scores)
    /\ Len(aug_bboxes) = 2
    /\ Len(aug_bboxes[1]) = 1 /\ Len(aug_bboxes[2]) = 2
    /\ ~img_metas[1][1].flip /\ img_metas[2][1].flip
    /\ merged.bboxes[1] = aug_bboxes[1][1]
    /\ merged.bboxes[3] # aug_bboxes[2][2]
    /\ merged.scores = <<11, 21, 22>>

(***************************************************************************)
(* Properties of SingleStageInstanceSegmentor.forward_train.               *)
(***************************************************************************)
SegFinished == seg_pc \in {"returned", "AssertionError"}
\* the losses of the detection head ({} without one)
C16_DetLosses ==
    IF IsNone(seg_bbox_head) THEN << >> ELSE Data(seg_bbox_head).det_losses
C16_SharedKeys == DOMAIN C16_DetLosses \cap DOMAIN seg_mask_loss

\* C16: forward_train never lets the mask head's losses override the
\* detection head's: when the two loss dicts share a key the call fails its
\* assertion and returns nothing, otherwise it returns their disjoint union;
\* without a bbox_head the mask head is called with positive_infos None and
\* exactly the mask losses are returned.
C16_NoLossOverride ==
    /\ SegFinished =>
         /\ C16_SharedKeys # {} => seg_pc = "AssertionError" /\ seg_ret = None
         /\ C16_SharedKeys = {} =>
              /\ seg_pc = "returned"
              /\ DOMAIN Data(seg_ret) =
                   DOMAIN C16_DetLosses \cup DOMAIN seg_mask_loss
              /\ \A k \in DOMAIN C16_DetLosses :
                    Data(seg_ret)[k] = C16_DetLosses[k]
              /\ \A k \in DOMAIN seg_mask_loss :
                    Data(seg_ret)[k] = seg_mask_loss[k]
    /\ seg_pc \in {"mask", "returned", "AssertionError"} =>
         /\ Len(mask_head_calls) = 1
         /\ IsNone(seg_bbox_head) => mask_head_calls[1] = None
         /\ ~IsNone(seg_bbox_head) =>
              mask_head_calls[1] = Data(seg_bbox_head).positive_infos
    /\ seg_pc = "returned" /\ IsNone(seg_bbox_head) =>
         Data(seg_ret) = seg_mask_loss

\* both heads report loss_cls, with different values: the call fails
C16_Witness ==
    /\ seg_pc = "AssertionError"
    /\ ~IsNone(seg_bbox_head)
    /\ "loss_cls" \in C16_SharedKeys
    /\ C16_DetLosses["loss_cls"] # seg_mask_loss["loss_cls"]
    /\ mask_head_calls = <<Data(seg_bbox_head).positive_infos>>

(***************************************************************************)
(* Further properties of ATSSAssigner.assign.                              *)
(***************************************************************************)
\* bbox i is a candidate of gt g, its IoU with g is at or above g's
\* threshold, and its center is more than margin2 / 2 away from every side
\* of g, inside g
C17_Qualifies(i, g, margin2) ==
    /\ \E p \in 1..Len(candidate_idxs[g]) :
          candidate_idxs[g][p] = i /\ C3_AtLeastThr(g, p)
    /\ \A d \in C4_Sides2(i, g) : d > margin2

\* bbox i is nonzero exactly when it qualifies for some gt, and is then
\* assigned to a qualifying gt of highest IoU
C17_AssignedLikeQualified(margin2) ==
    Returned =>
        \A i \in 1..num_bboxes :
            /\ assigned_gt_inds[i] # 0 <=>
                  \E g \in 1..num_gt : C17_Qualifies(i, g, margin2)
            /\ assigned_gt_inds[i] # 0 =>
                  LET g == assigned_gt_inds[i]
                  IN  /\ C17_Qualifies(i, g, margin2)
                      /\ \A h \in 1..num_gt :
                            C17_Qualifies(i, h, margin2) =>
                                RatLe(bbox_overlaps(bboxes[i], gt_bboxes[h]),
                                      bbox_overlaps(bboxes[i], gt_bboxes[g]))

\* C17 as stated: bbox b gets a nonzero index exactly when some gt g has b
\* as a candidate, with IoU at or above g's threshold and b's center inside
\* g; when b qualifies for several gts it is assigned to the qualifying gt
\* of highest IoU.
C17_NonzeroIffCenterInside == C17_AssignedLikeQualified(0)

\* C17, amended: the same with "center inside g" read as the code tests it,
\* the center more than 0.01 away from each of g's four sides.
C17_NonzeroIffCenterWellInside == C17_AssignedLikeQualified(2 * CenterEps)

\* a bbox qualifying for both gts, assigned to the one of higher IoU, and a
\* bbox left background
C17_Witness ==
    /\ Returned
    /\ num_gt = 2
    /\ \E i, j \in 1..num_bboxes :
         /\ C17_Qualifies(i, 1, 2 * CenterEps)
         /\ C17_Qualifies(i, 2, 2 * CenterEps)
         /\ bbox_overlaps(bboxes[i], gt_bboxes[1])
               # bbox_overlaps(bboxes[i], gt_bboxes[2])
         /\ assigned_gt_inds[i] # 0
         /\ assigned_gt_inds[j] = 0

\* the bboxes with a nonzero assigned_gt_inds
C18_PosInds == {i \in 1..num_bboxes : assigned_gt_inds[i] > 0}

\* C18: when gt_labels is given, the returned label of every positive bbox
\* is gt_labels[assigned_gt_inds - 1] (the label of its gt) and the label of
\* every background bbox is 0, whether there are no, one or several
\* positives; when gt_labels is None the returned labels are None.
C18_LabelsFollowGtInds ==
    Returned =>
        /\ IsNone(gt_labels) => assigned_labels = None
        /\ ~IsNone(gt_labels) =>
              /\ ~IsNone(assigned_labels)
              /\ Len(Data(assigned_labels)) = num_bboxes
              /\ \A i \in C18_PosInds :
                    Data(assigned_labels)[i] =
                        Data(gt_labels)[assigned_gt_inds[i]]
              /\ \A i \in (1..num_bboxes) \ C18_PosInds :
                    Data(assigned_labels)[i] = 0

\* exactly one positive, assigned to the second gt and labelled like it,
\* among background bboxes
C18_Witness ==
    /\ Returned
    /\ ~IsNone(gt_labels)
    /\ Cardinality(C18_PosInds) = 1
    /\ num_bboxes > 1
    /\ \E i \in C18_PosInds :
         /\ assigned_gt_inds[i] = 2
         /\ Data(gt_labels)[2] # Data(gt_labels)[1]
         /\ Data(assigned_labels)[i] = Data(gt_labels)[2]

\* nothing of an assignment has been computed
C19_NothingComputed ==
    /\ candidate_idxs = <<>>
    /\ assigned_gt_inds = <<>>
    /\ max_overlaps = <<>>
    /\ assigned_labels = None

\* C19: a call of assign with no bbox or no gt ends in ValueError before
\* anything of an assignment is computed; in particular no call returns a
\* result (all background or other) for an image without gt.
C19_EmptyRaisesValueError ==
    /\ (atss_pc # "call" /\ (num_bboxes = 0 \/ num_gt = 0)) =>
          atss_pc = "ValueError" /\ C19_NothingComputed
    /\ Returned => num_gt > 0 /\ num_bboxes > 0

\* a call with bboxes and no gt that has ended in ValueError
C19_Witness ==
    /\ atss_pc = "ValueError"
    /\ num_gt = 0
    /\ num_bboxes > 0
    /\ C19_NothingComputed

\* the AssignResult of the call that has returned
C20_Result ==
    [gt_inds |-> assigned_gt_inds,
     max_overlaps |-> Tuple(max_overlaps),
     labels |-> assigned_labels]
\* the AssignResult of the earlier call
C20_Earlier ==
    [gt_inds |-> Data(atss_prev).gt_inds,
     max_overlaps |-> Data(atss_prev).max_overlaps,
     labels |-> Data(atss_prev).labels]
\* bbox i overlaps an ignored region
C20_OverlapsIgnored(i, ignore) ==
    /\ ~IsNone(ignore)
    /\ \E k \in 1..Len(Data(ignore)) :
          Intersection(bboxes[i], Data(ignore)[k]) > 0

\* C20: the result of assign does not depend on gt_bboxes_ignore.  For two
\* calls that differ only in gt_bboxes_ignore: whatever the first returned
\* (assigned_gt_inds, max_overlaps, labels) is a result of the second; the
\* second call returns labels exactly when the first did, and a bbox both
\* calls leave background has the same max_overlaps.
C20_IgnoreIndependent ==
    ~IsNone(atss_prev) =>
        /\ gt_bboxes_ignore # Data(atss_prev).gt_bboxes_ignore
        /\ atss_pc = "call" => C20_Earlier \in AssignResults
        /\ Returned =>
              /\ Len(assigned_gt_inds) = Len(C20_Earlier.gt_inds)
              /\ IsNone(assigned_labels) <=> IsNone(C20_Earlier.labels)
              /\ \A i \in 1..num_bboxes :
                    C20_Earlier.gt_inds[i] = 0 /\ assigned_gt_inds[i] = 0 =>
                        max_overlaps[i] = C20_Earlier.max_overlaps[i]

\* two returned calls, one with an ignored region and one without, with the
\* same result, in which a bbox overlapping the ignored region is positive
C20_Witness ==
    /\ ~IsNone(atss_prev)
    /\ Returned
    /\ C20_Result = C20_Earlier
    /\ \E i \in 1..num_bboxes :
         /\ assigned_gt_inds[i] > 0
         /\ \/ C20_OverlapsIgnored(i, gt_bboxes_ignore)
            \/ C20_OverlapsIgnored(i, Data(atss_prev).gt_bboxes_ignore)

(***************************************************************************)
(* Further properties of CascadeRoIHead.forward_train.                     *)
(***************************************************************************)
\* stage s (from 1) reached bbox2roi and got no rois
C21_NoRois(s) == s <= Len(num_rois) /\ num_rois[s] = 0

\* key starts with 's{i}.'
C21_KeyOfStage(key, i) == IsPrefix(<<"s">> \o Str(i) \o <<".">>, key)

\* C21: a stage without sampled rois is skipped: losses has no 's{i}.' entry
\* of it, its bbox head and its mask head are not run (no feature
\* extraction, prediction or mask step), nothing is refined, and the next
\* stage assigns and samples on the proposal lists the skipped stage had.
C21_EmptyStageSkipped ==
    \A s \in StagesBegun :
        C21_NoRois(s) =>
            /\ \A e \in losses : ~C21_KeyOfStage(e[1], s - 1)
            /\ \A k \in 1..Len(loss_writes) : loss_writes[k].stage # s - 1
            /\ \A k \in 1..Len(ft_log) :
                  ft_log[k][2] = s - 1 => ft_log[k][1] \in {"assign", "sample"}
            /\ IsNone(refine_ret[s])
            /\ s + 1 \in StagesBegun =>
                  /\ \A j \in 1..Len(stage_inputs[s + 1].assign) :
                        stage_inputs[s + 1].assign[j] = stage_inputs[s].assign[j]
                  /\ \A j \in 1..Len(stage_inputs[s + 1].sample) :
                        stage_inputs[s + 1].sample[j] = stage_inputs[s].sample[j]

\* a call of two stages has returned: the first had no rois and left no
\* loss, the second sampled from the same proposals, got rois (gt boxes
\* added by the sampler) and wrote its losses
C21_Witness ==
    /\ ft_pc = "returned"
    /\ num_stages = 2
    /\ C21_NoRois(1)
    /\ ProducedRois(2)
    /\ Len(stage_inputs[2].sample) = num_imgs
    /\ stage_inputs[2].sample = stage_inputs[1].sample
    /\ \E e \in losses : C21_KeyOfStage(e[1], 1)

\* the mask branch of the current stage has run on the shared extractor
C22_SharedMaskDone ==
    /\ share_roi_extractor
    /\ \E k \in 1..Len(ft_log) : ft_log[k] = <<"mask", current_stage, 0>>
\* the number of rois / of positives of the images before image j
C22_RoiStart(j) ==
    SeqSum([h \in 1..(j - 1) |-> Len(sampling_results[h].bboxes)])
C22_PosStart(j) ==
    SeqSum([h \in 1..(j - 1) |-> Len(sampling_results[h].pos_bboxes)])

\* C22: with a shared RoI extractor the mask features of a stage are exactly
\* the bbox features of the positive samples: pos_inds is as long as rois
\* and has, image by image, a 1 per positive box followed by a 0 per
\* negative box; there are as many mask features as positives, which is the
\* length of pos_labels, and the m-th mask feature is the bbox feature of
\* the m-th positive box.
C22_MaskFeatsArePositives ==
    C22_SharedMaskDone =>
        /\ Len(pos_inds) = Len(rois)
        /\ Len(rois) = C22_RoiStart(num_imgs + 1)
        /\ \A j \in 1..num_imgs :
              LET res == sampling_results[j]
              IN  /\ \A k \in 1..Len(res.pos_bboxes) :
                        pos_inds[C22_RoiStart(j) + k] = 1
                  /\ \A k \in 1..Len(res.neg_bboxes) :
                        pos_inds[C22_RoiStart(j) + Len(res.pos_bboxes) + k] = 0
        /\ Len(mask_feats) = C22_PosStart(num_imgs + 1)
        /\ Len(mask_feats) = Len(pos_labels)
        /\ \A j \in 1..num_imgs :
              \A k \in 1..Len(sampling_results[j].pos_bboxes) :
                  /\ mask_feats[C22_PosStart(j) + k] =
                        bbox_feats[C22_RoiStart(j) + k]
                  /\ rois[C22_RoiStart(j) + k] =
                        <<j, sampling_results[j].pos_bboxes[k]>>

\* two images, the first with a positive and a negative box and the second
\* with a positive box: three rois, two mask features
C22_Witness ==
    /\ C22_SharedMaskDone
    /\ num_imgs = 2
    /\ Len(sampling_results[1].pos_bboxes) = 1
    /\ Len(sampling_results[1].neg_bboxes) = 1
    /\ Len(sampling_results[2].pos_bboxes) = 1
    /\ pos_inds = <<1, 0, 1>>
    /\ Len(mask_feats) = 2
    /\ mask_feats[2] = bbox_feats[3]

(***************************************************************************)
(* Properties of SemiMixUpDetector.filter_pseudo_instances.                *)
(***************************************************************************)
ProjectReturned == pj_pc = "returned"
\* the indices of the projected boxes of sample s that are wider than
\* min_pseudo_bbox_wh[0] and higher than min_pseudo_bbox_wh[1]
C23_Kept(s) ==
    {k \in 1..Len(pj_projected[s].bboxes) :
        LET b == pj_projected[s].bboxes[k]
        IN  /\ b[3] - b[1] > min_pseudo_bbox_wh[1]
            /\ b[4] - b[2] > min_pseudo_bbox_wh[2]}
\* the i-th of them
C23_KeptAt(s, i) ==
    CHOOSE k \in C23_Kept(s) : Cardinality({l \in C23_Kept(s) : l <= k}) = i

\* C23: after filter_pseudo_instances, called at the end of
\* project_pseudo_instances, every pseudo box left in a sample is strictly
\* wider than min_pseudo_bbox_wh[0] and strictly higher than
\* min_pseudo_bbox_wh[1]; bboxes and labels are those of the same kept
\* indices, in order, so they stay aligned and equally long; a sample
\* without a pseudo box is left as it was.
C23_FilteredPseudoInstances ==
    ProjectReturned =>
        /\ Len(pj_ret) = Len(pj_data_samples)
        /\ \A s \in 1..Len(pj_ret) :
              /\ \A k \in 1..Len(pj_ret[s].bboxes) :
                    /\ pj_ret[s].bboxes[k][3] - pj_ret[s].bboxes[k][1]
                          > min_pseudo_bbox_wh[1]
                    /\ pj_ret[s].bboxes[k][4] - pj_ret[s].bboxes[k][2]
                          > min_pseudo_bbox_wh[2]
              /\ Len(pj_ret[s].bboxes) = Cardinality(C23_Kept(s))
              /\ Len(pj_ret[s].labels) = Len(pj_ret[s].bboxes)
              /\ \A i \in 1..Len(pj_ret[s].bboxes) :
                    /\ pj_ret[s].bboxes[i] =
                          pj_projected[s].bboxes[C23_KeptAt(s, i)]
                    /\ pj_ret[s].labels[i] =
                          batch_pseudo_instances[s].labels[C23_KeptAt(s, i)]
              /\ Len(pj_projected[s].bboxes) = 0 => pj_ret[s] = pj_projected[s]

\* a batch of two: the first sample keeps its first box with its label and
\* loses its second, which is exactly min_pseudo_bbox_wh[0] wide; the
\* second sample had no pseudo box
C23_Witness ==
    /\ ProjectReturned
    /\ Len(pj_ret) = 2
    /\ Len(pj_projected[1].bboxes) = 2
    /\ pj_projected[1].bboxes[2][3] - pj_projected[1].bboxes[2][1]
          = min_pseudo_bbox_wh[1]
    /\ pj_projected[1].bboxes # batch_pseudo_instances[1].bboxes
    /\ pj_ret[1].bboxes = <<pj_projected[1].bboxes[1]>>
    /\ pj_ret[1].labels = <<batch_pseudo_instances[1].labels[1]>>
    /\ pj_projected[2].bboxes = <<>>
    /\ pj_ret[2] = pj_projected[2]

(***************************************************************************)
(* Properties of SemiMixUpDetector.loss.                                   *)
(***************************************************************************)
\* the value of a student's entry once weighted: scaled when its name
\* contains 'loss', item by item if it is a sequence
C24_Expected(name, value, w) ==
    IF Contains(LossStr, name)
    THEN [value EXCEPT !.items = [i \in 1..Len(@) |-> @[i] * w]]
    ELSE value
\* the weights applied
C24_SupWeight == IF IsNone(sup_weight) THEN 1 ELSE Data(sup_weight)
C24_UnsupWeight ==
    IF \A s \in 1..Len(pseudo_instances_len) : pseudo_instances_len[s] = 0
    THEN 0
    ELSE IF IsNone(unsup_weight) THEN 1 ELSE Data(unsup_weight)
C24_SupKeys == {SupPrefix \o k : k \in DOMAIN sup_student_loss}
C24_UnsupKeys == {UnsupPrefix \o k : k \in DOMAIN unsup_student_loss}

\* C24: every key of the dict loss returns starts with 'sup_' or 'unsup_';
\* both kinds of entries come from the student's loss; the two key sets are
\* disjoint, so the second update overwrites no supervised entry; an entry
\* is scaled by its weight only if its original name contains 'loss' (a
\* list element by element), the others are passed through unchanged.
C24_LossDictKeys ==
    ls_pc = "returned" =>
        /\ \A key \in DOMAIN ls_losses :
              IsPrefix(SupPrefix, key) \/ IsPrefix(UnsupPrefix, key)
        /\ DOMAIN ls_losses = C24_SupKeys \cup C24_UnsupKeys
        /\ C24_SupKeys \cap C24_UnsupKeys = {}
        /\ ls_calls = << <<student, "loss">>, <<student, "loss">> >>
        /\ \A k \in DOMAIN sup_student_loss :
              ls_losses[SupPrefix \o k] =
                  C24_Expected(k, sup_student_loss[k], C24_SupWeight)
        /\ \A k \in DOMAIN unsup_student_loss :
              ls_losses[UnsupPrefix \o k] =
                  C24_Expected(k, unsup_student_loss[k], C24_UnsupWeight)

\* a returned dict with a scaled supervised loss, a list-valued
\* unsupervised loss scaled item by item, and both accuracies unscaled
C24_Witness ==
    /\ ls_pc = "returned"
    /\ C24_SupWeight = 2 /\ C24_UnsupWeight = 4
    /\ DOMAIN sup_student_loss = {LossCls, LossBbox, Acc}
    /\ DOMAIN unsup_student_loss = {LossCls, LossBbox, Acc}
    /\ ls_losses[SupPrefix \o LossCls].items = <<6>>
    /\ ls_losses[UnsupPrefix \o LossBbox].items = <<100, 108>>
    /\ ls_losses[SupPrefix \o Acc] = sup_student_loss[Acc]
    /\ ls_losses[UnsupPrefix \o Acc] = unsup_student_loss[Acc]
====
